---- MODULE Spec2Model ----
(***************************************************************************)
(* Verification model of the ultra-mcp request pipeline.                   *)
(*                                                                         *)
(*   SpecMessages, SpecFiles : ConversationMemoryManager over the SQLite   *)
(*                  tables (sessions, conversation_messages,               *)
(*                  conversation_files).  The repository holds two copies  *)
(*                  of the manager: one that wraps each operation in       *)
(*                  db.transaction (impl "tx") and one that issues the     *)
(*                  same statements one by one (impl "plain").             *)
(*   SpecProvider : the provider adapters (generateText / streamText) and  *)
(*                  the request-tracking records they open and close.      *)
(***************************************************************************)
EXTENDS Integers, Sequences, FiniteSets, TLC

VARIABLES
    \* ---- conversation memory (database tables + in-flight calls) ----
    sessions,              \* sessions table: id -> row, for the ids that exist
    conversationMessages,  \* conversation_messages rows, in insertion order
    conversationFiles,     \* conversation_files rows, in insertion order
    clock,                 \* the wall clock read by new Date()
    conversationBudgets,   \* conversation_budgets rows, in insertion order
    frame,                 \* per manager call: its arguments, position and locals
    \* ---- provider adapters and request tracking ----
    llmRequests,           \* llm_requests rows (tracking records); requestId = position
    call,                  \* the adapter call: adapter, method, position and locals
    upstream,              \* what the upstream does for this call
    yielded,               \* chunks handed to the consumer so far
    \* ---- pricing ----
    pricingDataCache,      \* PricingService.pricingDataCache: <<>> (null) or <<data>>
    lastFetchTime,         \* PricingService.lastFetchTime
    cacheFile,             \* the disk cache: <<>> (no readable file) or <<CacheFile>>
    time,                  \* Date.now(), in ticks of five minutes
    pframe,                \* per pricing call: its position, locals and outcome
    \* ---- what the read-only operations last returned ----
    context,               \* getConversationContext: its arguments and the view returned
    fetched,               \* fetchFromRemote: the response it read and what it returned
    listed,                \* listSessions: its arguments and the page it returned
    \* ---- requests handed to the AI SDK ----
    sent,                  \* the options of the generateText / streamText / embed calls made
    ecall                  \* the getEmbeddings call: its arguments, position and locals

memVars  == <<sessions, conversationMessages, conversationFiles, conversationBudgets,
              clock, frame>>
provVars == <<llmRequests, call, upstream, yielded>>
priceVars == <<pricingDataCache, lastFetchTime, cacheFile, time, pframe>>
outVars  == <<context, fetched, listed, sent, ecall>>
vars     == <<memVars, provVars, priceVars, outVars>>

-----------------------------------------------------------------------------
(* Bounds *)

MaxCalls     == 3     \* addMessage calls issued in one behaviour
MaxFileCalls == 2     \* addFiles calls issued in one behaviour
MaxClock     == 1     \* clock ticks in one behaviour
MaxBudgetCalls == 3    \* setBudget and updateBudgetUsage calls issued in one behaviour
MaxSessionCalls == 2   \* getOrCreateSession calls issued in one behaviour

\* The calls are numbered in the order they are issued.
Callers      == 1..MaxCalls
FileCallers  == 1..MaxFileCalls
BudgetCallers == 1..MaxBudgetCalls
SessionCallers == 1..MaxSessionCalls
SessionIds  == {"s1", "s2"}
Contents    == {"a"}
FileBodies  == {"HELLO", "WORLD"}
FilePaths   == {"/x.ts"}
Impls       == {"tx", "plain"}
\* the file lists an addFiles call may pass
FileLists   == {<<b>> : b \in FileBodies} \cup {<<"HELLO", "WORLD">>}

NoIndex     == -1

-----------------------------------------------------------------------------
(* Generic helpers *)

SelectIdx(s, Test(_)) == {i \in DOMAIN s : Test(s[i])}

-----------------------------------------------------------------------------
(* conversation_messages *)

MessagesOf(sid) == SelectSeq(conversationMessages, LAMBDA r : r.sessionId = sid)

\* mutant: the empty session defaults to 0 instead of -1, so numbering starts at 1
NextMessageIndexFromOne(rows, sid) ==
    LET idxs == {rows[i].messageIndex : i \in SelectIdx(rows, LAMBDA r : r.sessionId = sid)}
    IN  IF idxs = {} THEN 0 + 1
        ELSE (CHOOSE m \in idxs : \A x \in idxs : x <= m) + 1

\* select messageIndex ... order by messageIndex desc limit 1; (?? -1) + 1
NextMessageIndex(rows, sid) ==
    LET idxs == {rows[i].messageIndex : i \in SelectIdx(rows, LAMBDA r : r.sessionId = sid)}
    IN  IF idxs = {} THEN NoIndex + 1
        ELSE (CHOOSE m \in idxs : \A x \in idxs : x <= m) + 1

\* mutant: the unique index on (session_id, message_index) is not declared
MessageIdxUnchecked(rows, sid, idx) == TRUE

\* unique index conversation_messages_session_message_idx_unique
MessageIdxFree(rows, sid, idx) ==
    \A i \in DOMAIN rows : ~(rows[i].sessionId = sid /\ rows[i].messageIndex = idx)

-----------------------------------------------------------------------------
(* conversation_files *)

\* createHash('sha256').update(content).digest('hex'), abbreviated
Sha256(content) ==
    CASE content = "HELLO" -> "3733cd97"
      [] content = "WORLD" -> "787ec76d"
      [] OTHER             -> "e3b0c442"

\* select ... where sessionId = sid and contentHash in hashes
ExistingFiles(rows, sid, hashes) ==
    SelectIdx(rows, LAMBDA r : r.sessionId = sid /\ r.contentHash \in hashes)

\* unique index conversation_files_session_hash_unique, for a batch insert:
\* no new row collides with a stored row or with another new row
FileHashesFree(rows, sid, hashSeq) ==
    /\ \A i \in DOMAIN rows, j \in DOMAIN hashSeq :
          ~(rows[i].sessionId = sid /\ rows[i].contentHash = hashSeq[j])
    /\ \A i, j \in DOMAIN hashSeq : i # j => hashSeq[i] # hashSeq[j]

NewFileRow(sid, body, now) ==
    [sessionId |-> sid, filePath |-> CHOOSE p \in FilePaths : TRUE, fileContent |-> body,
     contentHash |-> Sha256(body), lastAccessedAt |-> now,
     accessCount |-> 0, isRelevant |-> TRUE]

RECURSIVE MapSeq(_, _)
MapSeq(Op(_), s) == IF s = <<>> THEN <<>> ELSE <<Op(Head(s))>> \o MapSeq(Op, Tail(s))

-----------------------------------------------------------------------------
(* Call frames of the manager's callers *)

IdleFrame ==
    [op |-> "idle", impl |-> "tx", pc |-> "idle", sid |-> "s1", content |-> "a",
     files |-> <<>>, k |-> 0, lastIdx |-> NoIndex, existing |-> 0, seen |-> 0,
     toInsert |-> <<>>, began |-> 0, result |-> "none",
     max |-> <<>>, delta |-> <<>>, seenUsed |-> <<>>, logged |-> FALSE]

\* no adapter call has been made yet
IdleCall ==
    [adapter |-> "none", method |-> "none", pc |-> "idle", requestId |-> 0,
     pos |-> 0, buffer |-> <<>>, lines |-> <<>>, fullText |-> "",
     finishReason |-> "", readerLocked |-> FALSE]

NoUpstream ==
    [outcome |-> "none", body |-> <<>>, text |-> "", aborted |-> FALSE]

\* getConversationContext has not been called yet
NoContext ==
    [sessionId |-> "none", maxTokens |-> 0, pruned |-> FALSE, messages |-> <<>>,
     files |-> <<>>, budget |-> <<>>, totalTokens |-> 0, totalCost |-> 0,
     stored |-> <<>>, storedFiles |-> <<>>]

\* ---- pricing: bounds, program constants and the idle call frame ----

MaxPriceCalls == 2     \* pricing calls issued in one behaviour
MaxTime == 13          \* ticks of the wall clock in one behaviour

\* one tick of time is five minutes
MEMORY_CACHE_TTL == 1
DEFAULT_TTL == 12

\* PricingCalculator.TIERED_PRICING_THRESHOLD
TIERED_PRICING_THRESHOLD == 200000

PriceCallers == 1..MaxPriceCalls
PricingDatas == {"d1", "d2"}

\* hit, memAge, loaded, loadAge, didFetch, fetchFailed, didWrite and fallback
\* record what the call did; the program does not read them
IdlePFrame ==
    [op |-> "idle", pc |-> "idle", forceRefresh |-> FALSE, now |-> 0,
     fetched |-> <<>>, hit |-> FALSE, memAge |-> <<>>, loaded |-> FALSE,
     loadAge |-> <<>>, didFetch |-> FALSE, fetchFailed |-> FALSE,
     didWrite |-> FALSE, fallback |-> "none", result |-> "none", data |-> <<>>,
     model |-> <<>>, inputTokens |-> 0, outputTokens |-> 0, pricing |-> <<>>,
     calculation |-> <<>>, requestId |-> 0, recorded |-> FALSE]

\* getEmbeddings has not been called yet
IdleEmbed == [provider |-> "none", texts |-> <<>>, pc |-> "idle", embeddings |-> <<>>]

\* listSessions has not been called yet
NotListed == [status |-> "none", limit |-> 0, offset |-> 0, sessions |-> <<>>,
              totalCount |-> 0, hasMore |-> FALSE, stored |-> <<>>, storedFiles |-> <<>>]

\* nothing has been fetched from the remote yet
NotFetched == [ok |-> TRUE, rawData |-> <<>>, filteredData |-> <<>>]

Init ==
    /\ context = NoContext
    /\ fetched = NotFetched
    /\ listed = NotListed
    /\ sent = <<>>
    /\ ecall = IdleEmbed
    /\ pricingDataCache = <<>>
    /\ lastFetchTime = 0
    /\ cacheFile = <<>>
    /\ time = 0
    /\ pframe = [c \in PriceCallers |-> IdlePFrame]
    /\ conversationBudgets = <<>>
    /\ llmRequests = <<>>
    /\ call = IdleCall
    /\ upstream = NoUpstream
    /\ yielded = <<>>
    /\ sessions = [s \in SessionIds |->
                     [status |-> "active", lastMessageAt |-> <<>>, updatedAt |-> 0]]
    /\ conversationMessages = <<>>
    /\ conversationFiles = <<>>
    /\ clock = 0
    /\ frame = [c \in Callers \cup FileCallers \cup BudgetCallers \cup SessionCallers
                  |-> IdleFrame]

\* the call has settled: its locals are dead, its outcome is what the caller sees
Done(c, res) ==
    [IdleFrame EXCEPT !.op = frame[c].op, !.impl = frame[c].impl, !.sid = frame[c].sid,
                      !.files = frame[c].files, !.began = frame[c].began,
                      !.pc = "done", !.result = res]

Tick ==
    /\ clock < MaxClock
    /\ clock' = clock + 1
    /\ UNCHANGED <<sessions, conversationMessages, conversationFiles, frame, conversationBudgets, provVars, priceVars, outVars>>

-----------------------------------------------------------------------------
(* addMessage *)

NewMessageRow(sid, idx, content, began) ==
    [sessionId |-> sid, messageIndex |-> idx, content |-> content, began |-> began]

\* update sessions set lastMessageAt = now, updatedAt = now where id = sid
TouchSession(tbl, sid, now) ==
    [tbl EXCEPT ![sid].lastMessageAt = <<now>>, ![sid].updatedAt = now]

\* began: how many rows of the session were stored when the call was issued
CallAddMessage(c, impl, sid, content) ==
    /\ frame[c].pc = "idle"
    /\ \A d \in Callers : d < c => frame[d].pc # "idle"
    /\ frame' = [frame EXCEPT ![c] =
                   [IdleFrame EXCEPT !.op = "addMessage", !.impl = impl,
                      !.pc = IF impl = "tx" THEN "am_tx" ELSE "am_select",
                      !.sid = sid, !.content = content,
                      !.began = Len(MessagesOf(sid))]]
    /\ UNCHANGED <<sessions, conversationMessages, conversationFiles, clock, conversationBudgets, provVars, priceVars, outVars>>

\* select from conversation_budgets where sessionId = sid limit 1: the index of
\* the row, 0 when there is none
BudgetOf(rows, sid) ==
    LET hit == {i \in DOMAIN rows : rows[i].sessionId = sid}
    IN  IF hit = {} THEN 0 ELSE CHOOSE i \in hit : \A j \in hit : i <= j

\* checkBudgetLimits: a limit is exceeded when it is set (not NULL) and the used
\* counter has reached it; a session without a budget is within its limits
CheckBudgetLimits(rows, sid) ==
    LET i == BudgetOf(rows, sid)
    IN  IF i = 0
        THEN [withinLimits |-> TRUE, tokenLimitExceeded |-> FALSE,
              costLimitExceeded |-> FALSE, durationLimitExceeded |-> FALSE]
        ELSE LET b == rows[i]
                 tokenLimitExceeded == b.maxTokens # <<>> /\ b.usedTokens >= b.maxTokens[1]
                 costLimitExceeded == b.maxCostUsd # <<>> /\ b.usedCostUsd >= b.maxCostUsd[1]
                 durationLimitExceeded ==
                     b.maxDurationMs # <<>> /\ b.usedDurationMs >= b.maxDurationMs[1]
             IN  [withinLimits |-> ~tokenLimitExceeded /\ ~costLimitExceeded
                                     /\ ~durationLimitExceeded,
                  tokenLimitExceeded |-> tokenLimitExceeded,
                  costLimitExceeded |-> costLimitExceeded,
                  durationLimitExceeded |-> durationLimitExceeded]

\* an addMessage that consults checkBudgetLimits and refuses a session that is
\* over its budget
AddMessageTxEnforcing(c) ==
    LET f   == frame[c]
        idx == NextMessageIndex(conversationMessages, f.sid)
    IN  /\ f.pc = "am_tx"
        /\ IF /\ MessageIdxFree(conversationMessages, f.sid, idx)
              /\ CheckBudgetLimits(conversationBudgets, f.sid).withinLimits
           THEN /\ conversationMessages' = Append(conversationMessages,
                       NewMessageRow(f.sid, idx, f.content, f.began))
                /\ sessions' = TouchSession(sessions, f.sid, clock)
                /\ frame' = [frame EXCEPT ![c] = Done(c, "ok")]
           ELSE /\ UNCHANGED <<conversationMessages, sessions>>
                /\ frame' = [frame EXCEPT ![c] = Done(c, "error")]
        /\ UNCHANGED <<conversationFiles, clock, conversationBudgets, provVars, priceVars, outVars>>

\* db.transaction: select the last index, insert, update the session, commit;
\* a failing statement rolls the transaction back and the call throws
AddMessageTx(c) ==
    LET f   == frame[c]
        idx == NextMessageIndex(conversationMessages, f.sid)
    IN  /\ f.pc = "am_tx"
        /\ IF MessageIdxFree(conversationMessages, f.sid, idx)
           THEN /\ conversationMessages' = Append(conversationMessages,
                       NewMessageRow(f.sid, idx, f.content, f.began))
                /\ sessions' = TouchSession(sessions, f.sid, clock)
                /\ frame' = [frame EXCEPT ![c] = Done(c, "ok")]
           ELSE /\ UNCHANGED <<conversationMessages, sessions>>
                /\ frame' = [frame EXCEPT ![c] = Done(c, "error")]
        /\ UNCHANGED <<conversationFiles, clock, conversationBudgets, provVars, priceVars, outVars>>

\* the same three statements issued one by one, without a transaction
AddMessageSelect(c) ==
    /\ frame[c].pc = "am_select"
    /\ frame' = [frame EXCEPT ![c].pc = "am_insert",
                   ![c].lastIdx = NextMessageIndex(conversationMessages, frame[c].sid)]
    /\ UNCHANGED <<sessions, conversationMessages, conversationFiles, clock, conversationBudgets, provVars, priceVars, outVars>>

AddMessageInsert(c) ==
    LET f == frame[c]
    IN  /\ f.pc = "am_insert"
        /\ IF MessageIdxFree(conversationMessages, f.sid, f.lastIdx)
           THEN /\ conversationMessages' = Append(conversationMessages,
                       NewMessageRow(f.sid, f.lastIdx, f.content, f.began))
                /\ frame' = [frame EXCEPT ![c].pc = "am_touch"]
           ELSE /\ UNCHANGED conversationMessages
                /\ frame' = [frame EXCEPT ![c] = Done(c, "error")]
        /\ UNCHANGED <<sessions, conversationFiles, clock, conversationBudgets, provVars, priceVars, outVars>>

AddMessageTouch(c) ==
    /\ frame[c].pc = "am_touch"
    /\ sessions' = TouchSession(sessions, frame[c].sid, clock)
    /\ frame' = [frame EXCEPT ![c] = Done(c, "ok")]
    /\ UNCHANGED <<conversationMessages, conversationFiles, clock, conversationBudgets, provVars, priceVars, outVars>>

-----------------------------------------------------------------------------
(* addFiles *)

\* an update that stamps the row and leaves its accessCount alone
BumpFileTouchOnly(rows, i, n, now) ==
    [rows EXCEPT ![i].lastAccessedAt = now]

\* update conversation_files set lastAccessedAt = now, accessCount = n where id = i
BumpFile(rows, i, n, now) ==
    [rows EXCEPT ![i].accessCount = n, ![i].lastAccessedAt = now]

\* the row the lookup map holds for a hash (the unique index leaves at most one)
ExistingFor(rows, sid, hash) ==
    LET hit == ExistingFiles(rows, sid, {hash})
    IN  IF hit = {} THEN 0 ELSE CHOOSE i \in hit : \A j \in hit : i <= j

\* the filesToUpdate loop: each entry carries the accessCount read before the loop
RECURSIVE ApplyUpdates(_, _, _, _, _)
ApplyUpdates(rows, old, sid, bodies, now) ==
    IF bodies = <<>> THEN rows
    ELSE LET i == ExistingFor(old, sid, Sha256(Head(bodies)))
         IN  ApplyUpdates(BumpFile(rows, i, old[i].accessCount + 1, now),
                          old, sid, Tail(bodies), now)

CallAddFiles(c, impl, sid, files) ==
    /\ frame[c].pc = "idle"
    /\ \A d \in FileCallers : d < c => frame[d].pc # "idle"
    /\ frame' = [frame EXCEPT ![c] =
                   [IdleFrame EXCEPT !.op = "addFiles", !.impl = impl,
                      !.pc = IF impl = "tx" THEN "af_tx" ELSE "af_select",
                      !.sid = sid, !.files = files, !.k = 1]]
    /\ UNCHANGED <<sessions, conversationMessages, conversationFiles, clock, conversationBudgets, provVars, priceVars, outVars>>

\* db.transaction: hash all, one bulk lookup, batch insert of the new files,
\* then the updates of the existing ones; a failing insert rolls back
AddFilesTx(c) ==
    LET f        == frame[c]
        rows     == conversationFiles
        isNew(b) == ExistingFor(rows, f.sid, Sha256(b)) = 0
        toInsert == SelectSeq(f.files, isNew)
        toUpdate == SelectSeq(f.files, LAMBDA b : ~isNew(b))
        newRows  == MapSeq(LAMBDA b : NewFileRow(f.sid, b, clock), toInsert)
        hashes   == MapSeq(Sha256, toInsert)
    IN  /\ f.pc = "af_tx"
        /\ IF FileHashesFree(rows, f.sid, hashes)
           THEN /\ conversationFiles' =
                       ApplyUpdates(rows, rows, f.sid, toUpdate, clock) \o newRows
                /\ frame' = [frame EXCEPT ![c] = Done(c, "ok")]
           ELSE /\ UNCHANGED conversationFiles
                /\ frame' = [frame EXCEPT ![c] = Done(c, "error")]
        /\ UNCHANGED <<sessions, conversationMessages, clock, conversationBudgets, provVars, priceVars, outVars>>

\* where the per-file loop goes after file k: the next file, the final batch
\* insert, or the end of the call when nothing is to be inserted
AfterFile(f, toInsert) ==
    IF f.k < Len(f.files)
    THEN [f EXCEPT !.k = f.k + 1, !.pc = "af_select", !.toInsert = toInsert]
    ELSE IF toInsert # <<>>
         THEN [f EXCEPT !.k = f.k + 1, !.pc = "af_insert", !.toInsert = toInsert]
         ELSE [IdleFrame EXCEPT !.op = f.op, !.impl = f.impl, !.sid = f.sid,
                                !.files = f.files, !.pc = "done", !.result = "ok"]

\* without a transaction: one lookup per file ...
AddFilesSelect(c) ==
    LET f == frame[c]
        b == f.files[f.k]
        i == ExistingFor(conversationFiles, f.sid, Sha256(b))
    IN  /\ f.pc = "af_select"
        /\ frame' = [frame EXCEPT ![c] =
              IF i = 0 THEN AfterFile(f, Append(f.toInsert, b))
              ELSE [f EXCEPT !.pc = "af_update", !.existing = i,
                             !.seen = conversationFiles[i].accessCount]]
        /\ UNCHANGED <<sessions, conversationMessages, conversationFiles, clock, conversationBudgets, provVars, priceVars, outVars>>

\* ... an update of the row the lookup found ...
AddFilesUpdate(c) ==
    LET f == frame[c]
    IN  /\ f.pc = "af_update"
        /\ conversationFiles' = BumpFile(conversationFiles, f.existing, f.seen + 1, clock)
        /\ frame' = [frame EXCEPT ![c] = AfterFile(f, f.toInsert)]
        /\ UNCHANGED <<sessions, conversationMessages, clock, conversationBudgets, provVars, priceVars, outVars>>

\* ... and one batch insert of the files no lookup found
AddFilesInsert(c) ==
    LET f      == frame[c]
        hashes == MapSeq(Sha256, f.toInsert)
    IN  /\ f.pc = "af_insert"
        /\ IF FileHashesFree(conversationFiles, f.sid, hashes)
           THEN /\ conversationFiles' = conversationFiles \o
                       MapSeq(LAMBDA b : NewFileRow(f.sid, b, clock), f.toInsert)
                /\ frame' = [frame EXCEPT ![c] = Done(c, "ok")]
           ELSE /\ UNCHANGED conversationFiles
                /\ frame' = [frame EXCEPT ![c] = Done(c, "error")]
        /\ UNCHANGED <<sessions, conversationMessages, clock, conversationBudgets, provVars, priceVars, outVars>>

-----------------------------------------------------------------------------
(* The conversation-memory specification *)

MessagesNext ==
    \/ Tick
    \/ \E c \in Callers, impl \in Impls, sid \in SessionIds, content \in Contents :
          CallAddMessage(c, impl, sid, content)
    \/ \E c \in Callers : AddMessageTx(c)
    \/ \E c \in Callers : AddMessageSelect(c)
    \/ \E c \in Callers : AddMessageInsert(c)
    \/ \E c \in Callers : AddMessageTouch(c)

FilesNext ==
    \/ Tick
    \/ \E c \in FileCallers, impl \in Impls, sid \in SessionIds, files \in FileLists :
          CallAddFiles(c, impl, sid, files)
    \/ \E c \in FileCallers : AddFilesTx(c)
    \/ \E c \in FileCallers : AddFilesSelect(c)
    \/ \E c \in FileCallers : AddFilesUpdate(c)
    \/ \E c \in FileCallers : AddFilesInsert(c)

\* concurrent addMessage calls of both manager versions on the shared database
SpecMessages == Init /\ [][MessagesNext]_vars

\* concurrent addFiles calls of both manager versions on the shared database
SpecFiles == Init /\ [][FilesNext]_vars

\* file lists in which one content may occur twice
DupFileLists == FileLists \cup {<<"HELLO", "HELLO">>, <<"WORLD", "HELLO", "WORLD">>}

DuplicatesNext ==
    \/ Tick
    \/ \E c \in FileCallers, files \in DupFileLists : CallAddFiles(c, "tx", "s1", files)
    \/ \E c \in FileCallers : AddFilesTx(c)

\* addFiles calls of the transactional manager, lists with repeated content included
SpecDuplicates == Init /\ [][DuplicatesNext]_vars

-----------------------------------------------------------------------------
(* getOrCreateSession *)

\* ids a caller may ask for: the stored sessions and one that is not stored yet
AskedSessionIds == SessionIds \cup {"s3"}

\* primary key of sessions
SessionIdFree(tbl, id) == id \notin DOMAIN tbl

\* insert into sessions values {id, name, status: 'active'}; the timestamps take
\* their defaults; the name is not kept here
NewSessionRow(now) ==
    [status |-> "active", lastMessageAt |-> <<>>, updatedAt |-> now]

\* the call has settled: result is the id of the session returned, or "error"
SessionDone(c, res) ==
    [IdleFrame EXCEPT !.op = frame[c].op, !.sid = frame[c].sid,
                      !.pc = "done", !.result = res]

CallGetOrCreateSession(c, id) ==
    /\ frame[c].pc = "idle"
    /\ \A d \in SessionCallers : d < c => frame[d].pc # "idle"
    /\ frame' = [frame EXCEPT ![c] =
                   [IdleFrame EXCEPT !.op = "getOrCreateSession", !.pc = "gs_select",
                                     !.sid = id]]
    /\ UNCHANGED <<sessions, conversationMessages, conversationFiles, clock, conversationBudgets, provVars, priceVars, outVars>>

\* select from sessions where id = sessionId limit 1; a hit is returned
GetOrCreateSelect(c) ==
    LET f == frame[c]
    IN  /\ f.pc = "gs_select"
        /\ frame' = [frame EXCEPT ![c] =
              IF f.sid \in DOMAIN sessions THEN SessionDone(c, f.sid)
              ELSE [f EXCEPT !.pc = "gs_insert"]]
        /\ UNCHANGED <<sessions, conversationMessages, conversationFiles, clock, conversationBudgets, provVars, priceVars, outVars>>

\* the insert, a separate statement in both manager versions; when the id was
\* taken meanwhile the primary key rejects it and the call throws
\* 'Failed to get or create session'
GetOrCreateInsert(c) ==
    LET f == frame[c]
    IN  /\ f.pc = "gs_insert"
        /\ IF SessionIdFree(sessions, f.sid)
           THEN /\ sessions' = sessions @@ (f.sid :> NewSessionRow(clock))
                /\ frame' = [frame EXCEPT ![c] = SessionDone(c, f.sid)]
           ELSE /\ UNCHANGED sessions
                /\ frame' = [frame EXCEPT ![c] = SessionDone(c, "error")]
        /\ UNCHANGED <<conversationMessages, conversationFiles, clock, conversationBudgets, provVars, priceVars, outVars>>

SessionsNext ==
    \/ Tick
    \/ \E c \in SessionCallers, id \in AskedSessionIds : CallGetOrCreateSession(c, id)
    \/ \E c \in SessionCallers : GetOrCreateSelect(c)
    \/ \E c \in SessionCallers : GetOrCreateInsert(c)

\* concurrent getOrCreateSession calls on the shared database
SpecSessions == Init /\ [][SessionsNext]_vars

-----------------------------------------------------------------------------
(* setBudget and updateBudgetUsage *)

\* the max-* arguments of setBudget; <<>> is an argument left undefined
BudgetCaps ==
    {[maxTokens |-> <<1>>, maxCostUsd |-> <<1>>, maxDurationMs |-> <<1>>],
     [maxTokens |-> <<2>>, maxCostUsd |-> <<>>, maxDurationMs |-> <<2>>]}

\* the deltas of updateBudgetUsage: any number is accepted
UsageDeltas ==
    {[tokens |-> 2, costUsd |-> 1, durationMs |-> 1],
     [tokens |-> -1, costUsd |-> 0, durationMs |-> 0]}

\* the unique index on sessionId is dropped
BudgetSessionUnchecked(rows, sid) == TRUE

\* unique index conversation_budgets_session_id_unique
BudgetSessionFree(rows, sid) ==
    \A i \in DOMAIN rows : rows[i].sessionId # sid

\* insert: an undefined max-* column is stored as NULL (<<>>), the used-* columns
\* take their default 0
NewBudgetRow(sid, max, now) ==
    [sessionId |-> sid, maxTokens |-> max.maxTokens, maxCostUsd |-> max.maxCostUsd,
     maxDurationMs |-> max.maxDurationMs, usedTokens |-> 0, usedCostUsd |-> 0,
     usedDurationMs |-> 0, updatedAt |-> now]

\* a re-set that also restarts the usage counters
SetMaxResetsUsed(rows, i, max, now) ==
    [rows EXCEPT ![i] = NewBudgetRow(rows[i].sessionId, max, now)]

\* update ... set {maxTokens, maxCostUsd, maxDurationMs, updatedAt} where id = i;
\* a key whose value is undefined is left out of the SET clause
SetMax(rows, i, max, now) ==
    [rows EXCEPT
       ![i].maxTokens = IF max.maxTokens = <<>> THEN @ ELSE max.maxTokens,
       ![i].maxCostUsd = IF max.maxCostUsd = <<>> THEN @ ELSE max.maxCostUsd,
       ![i].maxDurationMs = IF max.maxDurationMs = <<>> THEN @ ELSE max.maxDurationMs,
       ![i].updatedAt = now]

\* the used-* columns of a row, as a select returns them
UsedOf(row) ==
    [usedTokens |-> row.usedTokens, usedCostUsd |-> row.usedCostUsd,
     usedDurationMs |-> row.usedDurationMs]

\* update ... set usedX = existing[0].usedX + delta where id = i
AddUsage(rows, i, seen, delta, now) ==
    [rows EXCEPT
       ![i].usedTokens = seen.usedTokens + delta.tokens,
       ![i].usedCostUsd = seen.usedCostUsd + delta.costUsd,
       ![i].usedDurationMs = seen.usedDurationMs + delta.durationMs,
       ![i].updatedAt = now]

\* the call has settled; existing keeps the row its select found (0: none)
BudgetDone(c, res, i) ==
    [IdleFrame EXCEPT !.op = frame[c].op, !.impl = frame[c].impl, !.sid = frame[c].sid,
                      !.max = frame[c].max, !.delta = frame[c].delta,
                      !.existing = i, !.pc = "done", !.result = res]

\* calls are issued in turn, all through the one manager the process has loaded
BudgetStartable(c, impl) ==
    /\ frame[c].pc = "idle"
    /\ \A d \in BudgetCallers : d < c => frame[d].pc # "idle" /\ frame[d].impl = impl

CallSetBudget(c, impl, sid, max) ==
    /\ BudgetStartable(c, impl)
    /\ frame' = [frame EXCEPT ![c] =
                   [IdleFrame EXCEPT !.op = "setBudget", !.impl = impl,
                      !.pc = IF impl = "tx" THEN "sb_tx" ELSE "sb_select",
                      !.sid = sid, !.max = max]]
    /\ UNCHANGED <<sessions, conversationMessages, conversationFiles, clock, conversationBudgets, provVars, priceVars, outVars>>

\* db.transaction: select the row of the session, update it or insert one
SetBudgetTx(c) ==
    LET f == frame[c]
        i == BudgetOf(conversationBudgets, f.sid)
    IN  /\ f.pc = "sb_tx"
        /\ IF i # 0
           THEN /\ conversationBudgets' = SetMax(conversationBudgets, i, f.max, clock)
                /\ frame' = [frame EXCEPT ![c] = BudgetDone(c, "ok", i)]
           ELSE IF BudgetSessionFree(conversationBudgets, f.sid)
                THEN /\ conversationBudgets' = Append(conversationBudgets,
                            NewBudgetRow(f.sid, f.max, clock))
                     /\ frame' = [frame EXCEPT ![c] = BudgetDone(c, "ok", 0)]
                ELSE /\ UNCHANGED conversationBudgets
                     /\ frame' = [frame EXCEPT ![c] = BudgetDone(c, "error", 0)]
        /\ UNCHANGED <<sessions, conversationMessages, conversationFiles, clock, provVars, priceVars, outVars>>

\* the same statements issued one by one, without a transaction
SetBudgetSelect(c) ==
    LET f == frame[c]
        i == BudgetOf(conversationBudgets, f.sid)
    IN  /\ f.pc = "sb_select"
        /\ frame' = [frame EXCEPT ![c].existing = i,
                       ![c].pc = IF i # 0 THEN "sb_update" ELSE "sb_insert"]
        /\ UNCHANGED <<sessions, conversationMessages, conversationFiles, clock, conversationBudgets, provVars, priceVars, outVars>>

SetBudgetUpdate(c) ==
    LET f == frame[c]
    IN  /\ f.pc = "sb_update"
        /\ conversationBudgets' = SetMax(conversationBudgets, f.existing, f.max, clock)
        /\ frame' = [frame EXCEPT ![c] = BudgetDone(c, "ok", f.existing)]
        /\ UNCHANGED <<sessions, conversationMessages, conversationFiles, clock, provVars, priceVars, outVars>>

\* the insert is rejected by the unique index when a row came in meanwhile, and
\* the call throws 'Failed to set budget'
SetBudgetInsert(c) ==
    LET f == frame[c]
    IN  /\ f.pc = "sb_insert"
        /\ IF BudgetSessionFree(conversationBudgets, f.sid)
           THEN /\ conversationBudgets' = Append(conversationBudgets,
                       NewBudgetRow(f.sid, f.max, clock))
                /\ frame' = [frame EXCEPT ![c] = BudgetDone(c, "ok", 0)]
           ELSE /\ UNCHANGED conversationBudgets
                /\ frame' = [frame EXCEPT ![c] = BudgetDone(c, "error", 0)]
        /\ UNCHANGED <<sessions, conversationMessages, conversationFiles, clock, provVars, priceVars, outVars>>

CallUpdateBudgetUsage(c, impl, sid, delta) ==
    /\ BudgetStartable(c, impl)
    /\ frame' = [frame EXCEPT ![c] =
                   [IdleFrame EXCEPT !.op = "updateBudgetUsage", !.impl = impl,
                      !.pc = IF impl = "tx" THEN "ub_tx" ELSE "ub_select",
                      !.sid = sid, !.delta = delta]]
    /\ UNCHANGED <<sessions, conversationMessages, conversationFiles, clock, conversationBudgets, provVars, priceVars, outVars>>

\* db.transaction: select the row, add the deltas to what was read; nothing
\* happens when the session has no budget
UpdateBudgetUsageTx(c) ==
    LET f == frame[c]
        i == BudgetOf(conversationBudgets, f.sid)
    IN  /\ f.pc = "ub_tx"
        /\ conversationBudgets' =
              IF i # 0
              THEN AddUsage(conversationBudgets, i, UsedOf(conversationBudgets[i]),
                            f.delta, clock)
              ELSE conversationBudgets
        /\ frame' = [frame EXCEPT ![c] = BudgetDone(c, "ok", i)]
        /\ UNCHANGED <<sessions, conversationMessages, conversationFiles, clock, provVars, priceVars, outVars>>

\* without a transaction: the select ...
UpdateBudgetUsageSelect(c) ==
    LET f == frame[c]
        i == BudgetOf(conversationBudgets, f.sid)
    IN  /\ f.pc = "ub_select"
        /\ frame' = [frame EXCEPT ![c] =
              IF i = 0 THEN BudgetDone(c, "ok", 0)
              ELSE [f EXCEPT !.pc = "ub_update", !.existing = i,
                             !.seenUsed = UsedOf(conversationBudgets[i])]]
        /\ UNCHANGED <<sessions, conversationMessages, conversationFiles, clock, conversationBudgets, provVars, priceVars, outVars>>

\* ... and the update that writes what the select read plus the deltas
UpdateBudgetUsageUpdate(c) ==
    LET f == frame[c]
    IN  /\ f.pc = "ub_update"
        /\ conversationBudgets' =
              AddUsage(conversationBudgets, f.existing, f.seenUsed, f.delta, clock)
        /\ frame' = [frame EXCEPT ![c] = BudgetDone(c, "ok", f.existing)]
        /\ UNCHANGED <<sessions, conversationMessages, conversationFiles, clock, provVars, priceVars, outVars>>

BudgetNext ==
    \/ \E c \in BudgetCallers, impl \in Impls, sid \in SessionIds, max \in BudgetCaps :
          CallSetBudget(c, impl, sid, max)
    \/ \E c \in BudgetCallers : SetBudgetTx(c)
    \/ \E c \in BudgetCallers : SetBudgetSelect(c)
    \/ \E c \in BudgetCallers : SetBudgetUpdate(c)
    \/ \E c \in BudgetCallers : SetBudgetInsert(c)
    \/ \E c \in BudgetCallers, impl \in Impls, sid \in SessionIds, delta \in UsageDeltas :
          CallUpdateBudgetUsage(c, impl, sid, delta)
    \/ \E c \in BudgetCallers : UpdateBudgetUsageTx(c)
    \/ \E c \in BudgetCallers : UpdateBudgetUsageSelect(c)
    \/ \E c \in BudgetCallers : UpdateBudgetUsageUpdate(c)

\* concurrent setBudget and updateBudgetUsage calls of both manager versions;
\* the calls of one behaviour fall within one tick of the clock
SpecBudget == Init /\ [][BudgetNext]_vars

-----------------------------------------------------------------------------
(* updateSessionStatus and getConversationContext *)

SessionStatuses == {"active", "archived", "deleted"}

\* contents of the messages of the context runs, and the limits asked for
ContextContents == {"a", "a a a"}
MaxTokensArgs == {0, 2, 5, 20}

\* the budget set in the context runs
ContextCap == [maxTokens |-> <<1>>, maxCostUsd |-> <<1>>, maxDurationMs |-> <<1>>]

\* update sessions set {status, updatedAt} where id = sessionId: the one
\* statement of updateSessionStatus; no row of any table is deleted
UpdateSessionStatus(sid, status) ==
    /\ sid \in DOMAIN sessions
    /\ sessions' = [sessions EXCEPT ![sid].status = status, ![sid].updatedAt = clock]
    /\ UNCHANGED <<conversationMessages, conversationFiles, clock, frame, conversationBudgets, provVars, priceVars, outVars>>

\* encoder.encode(text).length for the texts of the model (cl100k_base,
\* abbreviated to a table)
CountTokens(text) ==
    CASE text = ""      -> 0
      [] text = "a"     -> 1
      [] text = "user"  -> 1
      [] text = "a a a" -> 3
      [] text = "HELLO" -> 2
      [] text = "WORLD" -> 2
      [] OTHER          -> 1

\* TokenizerManager.countMessageTokens: 3 per message, the role, the content,
\* and 3 for the primed reply; every message of the model has the role user
RECURSIVE CountMessageTokensFrom(_, _)
CountMessageTokensFrom(messages, totalTokens) ==
    IF messages = <<>> THEN totalTokens + 3
    ELSE CountMessageTokensFrom(Tail(messages),
             totalTokens + 3 + CountTokens("user") + CountTokens(Head(messages).content))

CountMessageTokens(messages) == CountMessageTokensFrom(messages, 0)

\* files.reduce((sum, file) => sum + countTokens(content), 0)
RECURSIVE CountFileTokens(_)
CountFileTokens(files) ==
    IF files = <<>> THEN 0
    ELSE CountTokens(Head(files).fileContent) + CountFileTokens(Tail(files))

\* a walk that passes over a message that does not fit and goes on to older ones
RECURSIVE PruneWalkSkips(_, _, _, _)
PruneWalkSkips(messages, i, totalTokens, maxTokens) ==
    IF i = 0 THEN <<>>
    ELSE LET tokens == CountTokens(messages[i].content)
         IN  IF totalTokens + tokens > maxTokens
             THEN PruneWalkSkips(messages, i - 1, totalTokens, maxTokens)
             ELSE Append(PruneWalkSkips(messages, i - 1, totalTokens + tokens, maxTokens),
                         messages[i])

\* the loop of pruneMessages from message i down: break at the first message
\* that does not fit, unshift the others
RECURSIVE PruneWalk(_, _, _, _)
PruneWalk(messages, i, totalTokens, maxTokens) ==
    IF i = 0 THEN <<>>
    ELSE LET tokens == CountTokens(messages[i].content)
         IN  IF totalTokens + tokens > maxTokens THEN <<>>
             ELSE Append(PruneWalk(messages, i - 1, totalTokens + tokens, maxTokens),
                         messages[i])

PruneMessages(messages, maxTokens) == PruneWalk(messages, Len(messages), 0, maxTokens)

\* the loop of pruneFiles: files in the order given, break at the first that
\* does not fit
RECURSIVE PruneFilesFrom(_, _, _)
PruneFilesFrom(files, totalTokens, maxTokens) ==
    IF files = <<>> THEN <<>>
    ELSE LET tokens == CountTokens(Head(files).fileContent)
         IN  IF totalTokens + tokens > maxTokens THEN <<>>
             ELSE <<Head(files)>> \o PruneFilesFrom(Tail(files), totalTokens + tokens, maxTokens)

PruneFiles(files, maxTokens) == PruneFilesFrom(files, 0, maxTokens)

\* Math.floor(maxTokens * MESSAGE_TOKEN_RATIO) and Math.floor(maxTokens * FILE_TOKEN_RATIO)
MessageTokenBudget(maxTokens) == (maxTokens * 7) \div 10
FileTokenBudget(maxTokens) == (maxTokens * 3) \div 10

\* select ... where sessionId = sid order by messageIndex
RECURSIVE OrderByMessageIndex(_)
OrderByMessageIndex(rows) ==
    IF rows = {} THEN <<>>
    ELSE LET first == CHOOSE r \in rows : \A q \in rows : r.messageIndex <= q.messageIndex
         IN  <<first>> \o OrderByMessageIndex(rows \ {first})

MessagesInOrder(sid) ==
    OrderByMessageIndex({conversationMessages[i] : i \in
        {j \in DOMAIN conversationMessages : conversationMessages[j].sessionId = sid}})

\* select ... where sessionId = sid and isRelevant order by lastAccessedAt desc:
\* the orders the database may give (rows of equal lastAccessedAt in any order)
RelevantFileOrders(sid) ==
    LET idx == {i \in DOMAIN conversationFiles :
                   conversationFiles[i].sessionId = sid /\ conversationFiles[i].isRelevant}
        n   == Cardinality(idx)
    IN  {[k \in 1..n |-> conversationFiles[o[k]]] :
            o \in {p \in [1..n -> idx] :
                     /\ \A k, l \in 1..n : k # l => p[k] # p[l]
                     /\ \A k, l \in 1..n : k < l =>
                           conversationFiles[p[k]].lastAccessedAt
                              >= conversationFiles[p[l]].lastAccessedAt}}

\* the condition under which getConversationContext prunes
MustPrune(maxTokens, totalTokens) == maxTokens # 0 /\ totalTokens > maxTokens

\* getConversationContext(sessionId, maxTokens): the three selects, the token
\* count, and the pruned or the full view; stored and storedFiles keep what the
\* selects returned
GetConversationContext(sid, maxTokens) ==
    /\ \E files \in RelevantFileOrders(sid) :
          LET b           == BudgetOf(conversationBudgets, sid)
              messages    == MessagesInOrder(sid)
              totalTokens == CountMessageTokens(messages) + CountFileTokens(files)
              prune       == MustPrune(maxTokens, totalTokens)
          IN  context' =
                 [sessionId |-> sid, maxTokens |-> maxTokens, pruned |-> prune,
                  messages |-> IF prune
                               THEN PruneMessages(messages, MessageTokenBudget(maxTokens))
                               ELSE messages,
                  files |-> IF prune THEN PruneFiles(files, FileTokenBudget(maxTokens))
                            ELSE files,
                  budget |-> IF b = 0 THEN <<>> ELSE <<conversationBudgets[b]>>,
                  totalTokens |-> IF prune THEN maxTokens ELSE totalTokens,
                  totalCost |-> IF b = 0 THEN 0 ELSE conversationBudgets[b].usedCostUsd,
                  stored |-> messages, storedFiles |-> files]
    /\ UNCHANGED <<memVars, provVars, priceVars, fetched, listed, sent, ecall>>

LifecycleNext ==
    \/ \E c \in Callers, content \in Contents : CallAddMessage(c, "tx", "s1", content)
    \/ \E c \in Callers : AddMessageTx(c)
    \/ \E c \in FileCallers, files \in FileLists : CallAddFiles(c, "tx", "s1", files)
    \/ \E c \in FileCallers : AddFilesTx(c)
    \/ \E c \in BudgetCallers : CallSetBudget(c, "tx", "s1", ContextCap)
    \/ \E c \in BudgetCallers : SetBudgetTx(c)
    \/ \E status \in SessionStatuses : UpdateSessionStatus("s1", status)

\* one session that is written to and then archived or deleted
SpecLifecycle == Init /\ [][LifecycleNext]_vars

\* what updateBudgetUsage does with an error of the store: the transactional
\* manager catches it, logs it and returns; the other has no try block around
\* its statements, so the error reaches the caller
\* a catch block that logs and throws again
OnBudgetStoreErrorRethrows(c, impl) ==
    [BudgetDone(c, "error", 0) EXCEPT !.logged = TRUE]

OnBudgetStoreError(c, impl) ==
    IF impl = "tx"
    THEN [BudgetDone(c, "ok", 0) EXCEPT !.logged = TRUE]
    ELSE BudgetDone(c, "error", 0)

\* the store fails during updateBudgetUsage (getDb, the transaction, the select
\* or the update throws); a failed statement changes no row
UpdateBudgetUsageFails(c) ==
    LET f == frame[c]
    IN  /\ f.pc \in {"ub_tx", "ub_select", "ub_update"}
        /\ frame' = [frame EXCEPT ![c] = OnBudgetStoreError(c, f.impl)]
        /\ UNCHANGED <<sessions, conversationMessages, conversationFiles, clock, conversationBudgets, provVars, priceVars, outVars>>

BestEffortNext ==
    \/ \E c \in BudgetCallers, impl \in Impls : CallSetBudget(c, impl, "s1", ContextCap)
    \/ \E c \in BudgetCallers : SetBudgetTx(c)
    \/ \E c \in BudgetCallers : SetBudgetSelect(c)
    \/ \E c \in BudgetCallers : SetBudgetUpdate(c)
    \/ \E c \in BudgetCallers : SetBudgetInsert(c)
    \/ \E c \in BudgetCallers, impl \in Impls, sid \in SessionIds, delta \in UsageDeltas :
          CallUpdateBudgetUsage(c, impl, sid, delta)
    \/ \E c \in BudgetCallers : UpdateBudgetUsageTx(c)
    \/ \E c \in BudgetCallers : UpdateBudgetUsageSelect(c)
    \/ \E c \in BudgetCallers : UpdateBudgetUsageUpdate(c)
    \/ \E c \in BudgetCallers : UpdateBudgetUsageFails(c)

\* budget calls on a store that may fail during updateBudgetUsage
SpecBestEffort == Init /\ [][BestEffortNext]_vars

AdvisoryNext ==
    \/ \E c \in BudgetCallers, max \in BudgetCaps : CallSetBudget(c, "tx", "s1", max)
    \/ \E c \in BudgetCallers : SetBudgetTx(c)
    \/ \E c \in BudgetCallers, delta \in UsageDeltas :
          CallUpdateBudgetUsage(c, "tx", "s1", delta)
    \/ \E c \in BudgetCallers : UpdateBudgetUsageTx(c)
    \/ \E c \in Callers, sid \in SessionIds, content \in ContextContents :
          CallAddMessage(c, "tx", sid, content)
    \/ \E c \in Callers : AddMessageTx(c)

\* messages added to sessions with and without a budget, spent or not
SpecAdvisory == Init /\ [][AdvisoryNext]_vars

-----------------------------------------------------------------------------
(* listSessions *)

\* the (limit, offset) pairs asked for; (50, 0) is the default
Pages == {<<50, 0>>, <<1, 0>>, <<1, 1>>}

\* sessions left join conversation_messages left join conversation_files, for
\* one session: a pair of row positions for every message and every file of
\* the session, 0 standing for the NULLs of a side without rows
JoinedRows(sid) ==
    LET ms == {i \in DOMAIN conversationMessages : conversationMessages[i].sessionId = sid}
        fs == {i \in DOMAIN conversationFiles : conversationFiles[i].sessionId = sid}
    IN  (IF ms = {} THEN {0} ELSE ms) \X (IF fs = {} THEN {0} ELSE fs)

\* count(column) over the group: the joined rows whose column is not NULL
CountColumn(rows, col) == Cardinality({r \in rows : r[col] # 0})

\* one element of the result: the counts of the group and the budget looked up
SessionSummary(sid) ==
    LET b == BudgetOf(conversationBudgets, sid)
    IN  [id |-> sid,
         messageCount |-> CountColumn(JoinedRows(sid), 1),
         fileCount |-> CountColumn(JoinedRows(sid), 2),
         totalTokens |-> IF b = 0 THEN 0 ELSE conversationBudgets[b].usedTokens,
         totalCost |-> IF b = 0 THEN 0 ELSE conversationBudgets[b].usedCostUsd,
         lastActivity |-> IF sessions[sid].lastMessageAt = <<>> THEN clock
                          ELSE sessions[sid].lastMessageAt[1],
         status |-> sessions[sid].status]

\* where status = ... order by lastMessageAt desc: the orders the database may
\* answer in (NULL sorts last, equal times in any order)
SessionOrders(status) ==
    LET ids == {sid \in DOMAIN sessions : sessions[sid].status = status}
        n   == Cardinality(ids)
        key(sid) == IF sessions[sid].lastMessageAt = <<>> THEN -1
                    ELSE sessions[sid].lastMessageAt[1]
    IN  {p \in [1..n -> ids] :
            /\ \A k, l \in 1..n : k # l => p[k] # p[l]
            /\ \A k, l \in 1..n : k < l => key(p[k]) >= key(p[l])}

\* limit ... offset ...
Page(order, limit, offset) ==
    SubSeq(order, offset + 1, IF offset + limit < Len(order) THEN offset + limit ELSE Len(order))

ListSessions(status, limit, offset) ==
    /\ \E order \in SessionOrders(status) :
          LET page == Page(order, limit, offset)
          IN  listed' = [status |-> status, limit |-> limit, offset |-> offset,
                         sessions |-> [k \in DOMAIN page |-> SessionSummary(page[k])],
                         totalCount |-> Len(order),
                         hasMore |-> offset + limit < Len(order),
                         stored |-> conversationMessages,
                         storedFiles |-> conversationFiles]
    /\ UNCHANGED <<memVars, provVars, priceVars, context, fetched, sent, ecall>>

ListNext ==
    \/ \E c \in Callers, sid \in SessionIds, content \in Contents :
          CallAddMessage(c, "tx", sid, content)
    \/ \E c \in Callers : AddMessageTx(c)
    \/ \E c \in FileCallers, files \in FileLists : CallAddFiles(c, "tx", "s1", files)
    \/ \E c \in FileCallers : AddFilesTx(c)
    \/ \E status \in SessionStatuses : UpdateSessionStatus("s2", status)
    \/ \E status \in SessionStatuses, page \in Pages : ListSessions(status, page[1], page[2])

\* sessions that are written to and listed
SpecList == Init /\ [][ListNext]_vars

ContextNext ==
    \/ \E c \in Callers, content \in ContextContents : CallAddMessage(c, "tx", "s1", content)
    \/ \E c \in Callers : AddMessageTx(c)
    \/ \E c \in FileCallers, files \in FileLists : CallAddFiles(c, "tx", "s1", files)
    \/ \E c \in FileCallers : AddFilesTx(c)
    \/ \E maxTokens \in MaxTokensArgs : GetConversationContext("s1", maxTokens)

\* one session that is written to and read back; the calls of one behaviour
\* fall within one tick of the clock
SpecContext == Init /\ [][ContextNext]_vars

-----------------------------------------------------------------------------
(* Provider adapters and request tracking *)

MaxLines == 3     \* lines in one streamed response body

\* The adapters differ only in how they reach the upstream and in who issues the
\* success update: "bailian" stands for the fetch-based adapters (Bailian,
\* Qwen3-Coder, DeepSeek-R1), "openai" for the SDK adapters that update
\* explicitly after generateText (OpenAI, Grok), "gemini" for the SDK adapter
\* that leaves every success update to the onFinish callback.
Adapters == {"bailian", "openai", "gemini"}
Methods  == {"generateText", "streamText"}

\* A response body is a sequence of text fragments; a read of the body returns
\* any number of consecutive fragments.
NL == "\n"

LineKinds ==
    { <<"data: ", "{content:He", "}">>,
      <<"data: ", "{content:llo", "}">>,
      <<"data: ", "{finish_reason:length", "}">>,
      <<"data: ", "{content:He">>,               \* JSON cut short
      <<"data: ", "[DONE]">>,
      <<": ping">> }                             \* not a data line

RECURSIVE Join(_, _)
\* the lines, each followed by a newline; the last newline is missing when the
\* upstream closes the body without one
Join(ls, terminated) ==
    IF ls = <<>> THEN <<>>
    ELSE IF Len(ls) = 1 THEN Head(ls) \o (IF terminated THEN <<NL>> ELSE <<>>)
    ELSE Head(ls) \o <<NL>> \o Join(Tail(ls), terminated)

Bodies ==
    { Join(ls, t) : ls \in UNION {[1..n -> LineKinds] : n \in 0..MaxLines},
                    t \in BOOLEAN }

SdkChunks == { <<>>, <<"He">>, <<"He", "llo">> }

RECURSIVE Concat(_)
Concat(chunks) ==
    IF chunks = <<>> THEN "" ELSE Head(chunks) \o Concat(Tail(chunks))

RECURSIVE Split(_)
\* buffer.split('\n'): k newlines give k+1 segments, the last one unterminated
Split(buf) ==
    IF buf = <<>> THEN << <<>> >>
    ELSE LET r == Split(Tail(buf)) IN
         IF Head(buf) = NL THEN << <<>> >> \o r
         ELSE << <<Head(buf)>> \o Head(r) >> \o Tail(r)

\* lines.pop() || '' with a mutation that forgets the unfinished line
PopForgets(segs) == <<>>
Pop(segs) == segs[Len(segs)]

\* what is left in lines after lines.pop()
Front(segs) == SubSeq(segs, 1, Len(segs) - 1)

\* line.startsWith('data: ')
StartsWithData(line) == line # <<>> /\ Head(line) = "data: "

\* JSON.parse(data) and the fields the loop reads from it; ok is FALSE where
\* JSON.parse throws.  The mutation accepts the JSON that was cut short.
ParseLenient(data) ==
    IF data = <<"{content:He">> \/ data = <<"{content:He", "}">>
    THEN [ok |-> TRUE, content |-> "He", finish |-> ""]
    ELSE IF data = <<"{content:llo", "}">>
    THEN [ok |-> TRUE, content |-> "llo", finish |-> ""]
    ELSE IF data = <<"{finish_reason:length", "}">>
    THEN [ok |-> TRUE, content |-> "", finish |-> "length"]
    ELSE [ok |-> FALSE, content |-> "", finish |-> ""]
Parse(data) ==
    CASE data = <<"{content:He", "}">>  -> [ok |-> TRUE, content |-> "He", finish |-> ""]
      [] data = <<"{content:llo", "}">> -> [ok |-> TRUE, content |-> "llo", finish |-> ""]
      [] data = <<"{finish_reason:length", "}">>
                                        -> [ok |-> TRUE, content |-> "", finish |-> "length"]
      [] OTHER                          -> [ok |-> FALSE, content |-> "", finish |-> ""]

RECURSIVE RunLines(_, _)
\* The for loop over the lines of one read, run until it yields or ends.
\* chunk is <<content>> when the loop stopped at a yield, rest the lines still
\* to be visited when the generator is resumed.  On [DONE] the break leaves the
\* for loop: the rest of this read is dropped and the while loop reads on.
\* The finish_reason assignment that follows the yield is folded into the step
\* that yields; nothing reads finishReason in between.
RunLines(lines, finishReason) ==
    IF lines = <<>>
    THEN [chunk |-> <<>>, rest |-> <<>>, finishReason |-> finishReason]
    ELSE LET line == Head(lines)
             data == Tail(line)
             parsed == Parse(data)
             fr == IF parsed.finish # "" THEN parsed.finish ELSE finishReason
         IN  IF ~StartsWithData(line) THEN RunLines(Tail(lines), finishReason)
             ELSE IF data = <<"[DONE]">>
                  THEN [chunk |-> <<>>, rest |-> <<>>, finishReason |-> finishReason]
             ELSE IF ~parsed.ok THEN RunLines(Tail(lines), finishReason)
             ELSE IF parsed.content # ""
                  THEN [chunk |-> <<parsed.content>>, rest |-> Tail(lines),
                        finishReason |-> fr]
             ELSE RunLines(Tail(lines), fr)

\* ---- request tracker ----

\* start(ctx): a pending record; its requestId is its position
TrackLLMRequest(recs) ==
    Append(recs, [status |-> "pending", responseText |-> "", finishReason |-> "",
                  errorMessage |-> "", updates |-> 0])

\* complete(requestId, ...) when error is <<>>, fail(requestId, ...) when it is
\* <<message>>; updates counts the terminal updates issued for the record
UpdateLLMCompletion(recs, requestId, responseText, finishReason, error) ==
    [recs EXCEPT ![requestId] =
        [status |-> IF error = <<>> THEN "success" ELSE "error",
         responseText |-> IF error = <<>> THEN responseText ELSE "",
         finishReason |-> IF error = <<>> THEN finishReason ELSE "",
         errorMessage |-> IF error = <<>> THEN "" ELSE error[1],
         updates |-> @.updates + 1]]

\* the success update after the upstream completed, with a mutation that lets
\* the error update follow it
TrackCompletionThenError(recs, requestId, text, finishReason) ==
    UpdateLLMCompletion(UpdateLLMCompletion(recs, requestId, text, finishReason, <<>>),
                        requestId, "", "", <<"error">>)
TrackCompletion(recs, requestId, text, finishReason) ==
    UpdateLLMCompletion(recs, requestId, text, finishReason, <<>>)

\* the update in the catch block, with a mutation that only rethrows
TrackErrorSkipped(recs, requestId, message) == recs
TrackError(recs, requestId, message) ==
    UpdateLLMCompletion(recs, requestId, "", "", <<message>>)

\* ---- adapter calls ----

\* what the upstream can do for a call of this adapter and method
Upstreams(adapter, method) ==
    IF adapter = "bailian" /\ method = "generateText"
    THEN { [NoUpstream EXCEPT !.outcome = o, !.text = IF o = "ok" THEN "Hello" ELSE ""] :
             o \in {"ok", "httpError", "transportError"} }
    ELSE IF adapter = "bailian"
    THEN { [NoUpstream EXCEPT !.outcome = o] :
             o \in {"httpError", "transportError", "noBody"} }
         \cup { [NoUpstream EXCEPT !.outcome = "ok", !.body = b] : b \in Bodies }
    ELSE IF method = "generateText"
    THEN { [NoUpstream EXCEPT !.outcome = o, !.text = IF o = "ok" THEN "Hello" ELSE ""] :
             o \in {"ok", "error"} }
    ELSE { [NoUpstream EXCEPT !.outcome = o, !.body = b] :
             o \in {"ok", "error"}, b \in SdkChunks }

\* the error the failing upstream makes the adapter throw
ErrorOf(outcome) ==
    CASE outcome = "httpError" -> "Bailian API error"
      [] outcome = "noBody"    -> "No response body received from Bailian API"
      [] OTHER                 -> "fetch failed"

Rec == llmRequests[call.requestId]

\* the call up to the request it awaits: the tracking record is opened first
StartCall(adapter, method, up) ==
    /\ call.pc = "idle"
    /\ llmRequests' = TrackLLMRequest(llmRequests)
    /\ call' = [IdleCall EXCEPT !.adapter = adapter, !.method = method,
                                !.pc = "request", !.requestId = Len(llmRequests) + 1]
    /\ upstream' = up
    /\ UNCHANGED <<yielded, memVars, priceVars, outVars>>

\* fetch rejects, the response is not ok or has no body; the SDK call rejects
\* before any chunk
RequestFails ==
    /\ call.pc = "request"
    /\ \/ upstream.outcome \in {"httpError", "transportError", "noBody"}
       \/ upstream.outcome = "error" /\ call.method = "generateText"
    /\ llmRequests' = TrackError(llmRequests, call.requestId, ErrorOf(upstream.outcome))
    /\ call' = [call EXCEPT !.pc = "thrown"]
    /\ UNCHANGED <<upstream, yielded, memVars, priceVars, outVars>>

\* generateText with the update written after the awaited result
GenerateReturns ==
    /\ call.pc = "request" /\ call.method = "generateText"
    /\ call.adapter \in {"bailian", "openai"}
    /\ upstream.outcome = "ok"
    /\ llmRequests' = TrackCompletion(llmRequests, call.requestId, upstream.text, "stop")
    /\ call' = [call EXCEPT !.pc = "returned"]
    /\ UNCHANGED <<upstream, yielded, memVars, priceVars, outVars>>

\* generateText with the update left to an onFinish option, which generateText
\* never invokes
GeminiGenerateReturns ==
    /\ call.pc = "request" /\ call.method = "generateText"
    /\ call.adapter = "gemini"
    /\ upstream.outcome = "ok"
    /\ call' = [call EXCEPT !.pc = "returned"]
    /\ UNCHANGED <<llmRequests, upstream, yielded, memVars, priceVars, outVars>>

\* response.body.getReader() and the locals of the read loop
StreamOpen ==
    /\ call.pc = "request" /\ call.method = "streamText"
    /\ call.adapter = "bailian"
    /\ upstream.outcome = "ok"
    /\ call' = [call EXCEPT !.pc = "reading", !.readerLocked = TRUE,
                            !.finishReason = "stop"]
    /\ UNCHANGED <<llmRequests, upstream, yielded, memVars, priceVars, outVars>>

\* the for loop from its current line to the next yield or to its end
Advance(c, lines) ==
    LET r == RunLines(lines, c.finishReason)
    IN  /\ call' = [c EXCEPT !.lines = r.rest, !.finishReason = r.finishReason,
                             !.fullText = IF r.chunk = <<>> THEN @ ELSE @ \o r.chunk[1],
                             !.pc = IF r.chunk = <<>> THEN "reading" ELSE "yielded"]
        /\ yielded' = yielded \o r.chunk

\* reader.read() returns the next n fragments of the body, for any n the body
\* still holds
StreamRead ==
    /\ call.pc = "reading"
    /\ \E n \in 1..(Len(upstream.body) - call.pos) :
         LET segs == Split(call.buffer \o
                           SubSeq(upstream.body, call.pos + 1, call.pos + n))
         IN  Advance([call EXCEPT !.pos = @ + n, !.buffer = Pop(segs)], Front(segs))
    /\ UNCHANGED <<llmRequests, upstream, memVars, priceVars, outVars>>

\* the consumer asks for the next chunk
StreamResume ==
    /\ call.pc = "yielded"
    /\ Advance(call, call.lines)
    /\ UNCHANGED <<llmRequests, upstream, memVars, priceVars, outVars>>

\* reader.read() reports done: the lock is released and the record completed
StreamReadDone ==
    /\ call.pc = "reading"
    /\ call.pos = Len(upstream.body)
    /\ llmRequests' = TrackCompletion(llmRequests, call.requestId,
                                      call.fullText, call.finishReason)
    /\ call' = [call EXCEPT !.pc = "returned", !.readerLocked = FALSE]
    /\ UNCHANGED <<upstream, yielded, memVars, priceVars, outVars>>

\* reader.read() rejects (the connection is lost at any point of the body):
\* the lock is released, then the catch block runs
StreamReadError ==
    /\ call.pc = "reading"
    /\ llmRequests' = TrackError(llmRequests, call.requestId, "fetch failed")
    /\ call' = [call EXCEPT !.pc = "thrown", !.readerLocked = FALSE]
    /\ UNCHANGED <<upstream, yielded, memVars, priceVars, outVars>>

\* the consumer stops at a chunk (return() on the generator): only the finally
\* block runs
StreamCancel ==
    /\ call.pc = "yielded"
    /\ call' = [call EXCEPT !.pc = "cancelled", !.readerLocked = FALSE]
    /\ UNCHANGED <<llmRequests, upstream, yielded, memVars, priceVars, outVars>>

\* streamText of the SDK adapters: result.textStream hands over the next chunk
SdkStreamChunk ==
    /\ call.pc = "request" /\ call.method = "streamText"
    /\ call.adapter \in {"openai", "gemini"}
    /\ call.pos < Len(upstream.body)
    /\ call' = [call EXCEPT !.pos = @ + 1]
    /\ yielded' = Append(yielded, upstream.body[call.pos + 1])
    /\ UNCHANGED <<llmRequests, upstream, memVars, priceVars, outVars>>

\* the text stream ends: onFinish issues the success update, the loop ends
SdkStreamFinish ==
    /\ call.pc = "request" /\ call.method = "streamText"
    /\ call.adapter \in {"openai", "gemini"}
    /\ call.pos = Len(upstream.body) /\ upstream.outcome = "ok"
    /\ llmRequests' = TrackCompletion(llmRequests, call.requestId,
                                      Concat(upstream.body), "stop")
    /\ call' = [call EXCEPT !.pc = "returned"]
    /\ UNCHANGED <<upstream, yielded, memVars, priceVars, outVars>>

\* the text stream throws: the catch block runs
SdkStreamError ==
    /\ call.pc = "request" /\ call.method = "streamText"
    /\ call.adapter \in {"openai", "gemini"}
    /\ call.pos = Len(upstream.body) /\ upstream.outcome = "error"
    /\ llmRequests' = TrackError(llmRequests, call.requestId, "fetch failed")
    /\ call' = [call EXCEPT !.pc = "thrown"]
    /\ UNCHANGED <<upstream, yielded, memVars, priceVars, outVars>>

ProviderNext ==
    \/ \E a \in Adapters, m \in Methods : \E up \in Upstreams(a, m) : StartCall(a, m, up)
    \/ RequestFails
    \/ GenerateReturns
    \/ GeminiGenerateReturns
    \/ StreamOpen
    \/ StreamRead
    \/ StreamResume
    \/ StreamReadDone
    \/ StreamReadError
    \/ StreamCancel
    \/ SdkStreamChunk
    \/ SdkStreamFinish
    \/ SdkStreamError

SpecProvider == Init /\ [][ProviderNext]_vars

-----------------------------------------------------------------------------
(* Pricing: PricingService over PricingFetcher, the disk cache and the remote *)

\* isCacheExpired(metadata), with the mutations age >= ttl and never expired
IsCacheExpiredAtTtl(metadata, t) == t - metadata.timestamp >= DEFAULT_TTL
IsCacheExpiredNever(metadata, t) == FALSE
IsCacheExpired(metadata, t) == t - metadata.timestamp > DEFAULT_TTL

\* the in-memory test of getPricingData, with the mutation age <= TTL
MemoryCacheValidAtTtl(forceRefresh, cache, fetchTime, t) ==
    ~forceRefresh /\ cache # <<>> /\ (t - fetchTime) <= MEMORY_CACHE_TTL
MemoryCacheValid(forceRefresh, cache, fetchTime, t) ==
    ~forceRefresh /\ cache # <<>> /\ (t - fetchTime) < MEMORY_CACHE_TTL

\* loadFromCache: the file's content; a missing, unreadable or invalid file
\* reads as null.  The mutation never finds the file.
LoadFromCacheNull == <<>>
LoadFromCache == cacheFile

\* ---- model names, the catalog and the cost arithmetic ----

\* model names and catalog keys are sequences of characters
Gpt4o      == <<"g", "p", "t", "-", "4", "o">>
UpperGpt4o == <<"G", "P", "T", "-", "4", "O">>
O3         == <<"o", "3">>
UpperO3    == <<"O", "3">>
MyO3       == <<"m", "y", "-", "o", "3">>
O3Azure    == <<"o", "3", "-", "a", "z", "u", "r", "e">>
Grok3      == <<"g", "r", "o", "k", "-", "3">>
XaiGrok3   == <<"x", "a", "i", "/", "g", "r", "o", "k", "-", "3">>
Zz         == <<"z", "z">>

\* the models asked for
ModelNames == {Gpt4o, UpperGpt4o, MyO3, Grok3, Zz}

\* String.prototype.toLowerCase, for the characters of the model
LowerChar(ch) ==
    CASE ch = "G" -> "g"
      [] ch = "P" -> "p"
      [] ch = "T" -> "t"
      [] ch = "O" -> "o"
      [] OTHER    -> ch

ToLowerCase(str) == [i \in DOMAIN str |-> LowerChar(str[i])]

\* String.prototype.includes
Includes(str, part) ==
    \E i \in 0..(Len(str) - Len(part)) : SubSeq(str, i + 1, i + Len(part)) = part

\* the normalizations table, in the order of its entries: those entries that
\* the names of the model can match
Normalizations ==
    << <<O3, O3>>, <<Gpt4o, Gpt4o>>, <<Grok3, Grok3>>, <<O3Azure, O3>> >>

\* normalizeModelName: the direct mapping of the lower-cased name, else the
\* first pattern the lower-cased name includes, else the name as it is
NormalizeModelName(model) ==
    LET lower  == ToLowerCase(model)
        direct == {i \in DOMAIN Normalizations : Normalizations[i][1] = lower}
        partOf == {i \in DOMAIN Normalizations :
                      Includes(lower, ToLowerCase(Normalizations[i][1]))}
        First(S) == CHOOSE i \in S : \A j \in S : i <= j
    IN  IF direct # {} THEN Normalizations[First(direct)][2]
        ELSE IF partOf # {} THEN Normalizations[First(partOf)][2]
        ELSE model

\* a catalog entry; an optional rate is <<>> when absent
Entry(inRate, outRate, inAbove, outAbove) ==
    [input_cost_per_token |-> inRate, output_cost_per_token |-> outRate,
     input_cost_per_token_above_200k_tokens |-> inAbove,
     output_cost_per_token_above_200k_tokens |-> outAbove]

\* the catalogs the remote may serve, as the key/entry pairs of the object in
\* their order; rates are in millionths of a dollar per token
CatalogOf(d) ==
    IF d = "d1"
    THEN << <<Gpt4o, Entry(2, 4, <<3>>, <<>>)>>,
            <<UpperO3, Entry(2, 4, <<3>>, <<5>>)>>,
            <<XaiGrok3, Entry(1, 1, <<>>, <<>>)>> >>
    ELSE << <<Gpt4o, Entry(2, 4, <<0>>, <<5>>)>>,
            <<UpperO3, Entry(2, 4, <<3>>, <<5>>)>>,
            <<XaiGrok3, Entry(1, 1, <<>>, <<>>)>> >>

\* getModelPricing after getPricingData: pricingData[normalizedModel], else the
\* first key equal to the normalized name when both are lower-cased, else null
\* (<<>>); a hit is <<key, entry>>
LookupPricing(pricingData, model) ==
    LET normalizedModel == NormalizeModelName(model)
        exact == {i \in DOMAIN pricingData : pricingData[i][1] = normalizedModel}
        same  == {i \in DOMAIN pricingData :
                     ToLowerCase(pricingData[i][1]) = ToLowerCase(normalizedModel)}
        First(S) == CHOOSE i \in S : \A j \in S : i <= j
    IN  IF exact # {} THEN pricingData[First(exact)]
        ELSE IF same # {} THEN pricingData[First(same)]
        ELSE <<>>

\* the condition `pricing.inputCostPerTokenAbove200k && ...`: an absent rate and
\* the rate 0 are both falsy
Truthy(rate) == rate # <<>> /\ rate[1] # 0

\* one dimension of PricingCalculator.calculateCost
DimensionCost(tokens, rate, above) ==
    IF Truthy(above) /\ tokens > TIERED_PRICING_THRESHOLD
    THEN [cost |-> (TIERED_PRICING_THRESHOLD * rate)
                      + ((tokens - TIERED_PRICING_THRESHOLD) * above[1]),
          tiered |-> TRUE]
    ELSE [cost |-> tokens * rate, tiered |-> FALSE]

\* PricingCalculator.calculateCost on the simplified entry
CalculateCost(model, entry, inputTokens, outputTokens) ==
    LET in  == DimensionCost(inputTokens, entry.input_cost_per_token,
                             entry.input_cost_per_token_above_200k_tokens)
        out == DimensionCost(outputTokens, entry.output_cost_per_token,
                             entry.output_cost_per_token_above_200k_tokens)
    IN  [inputCost |-> in.cost, outputCost |-> out.cost,
         totalCost |-> in.cost + out.cost, inputTokens |-> inputTokens,
         outputTokens |-> outputTokens, model |-> model,
         tieredPricingApplied |-> in.tiered \/ out.tiered]

\* PricingService.calculateCost once getModelPricing has answered: the default
\* calculation with zero cost when there is no pricing
ServiceCalculateCost(pricing, model, inputTokens, outputTokens) ==
    IF pricing = <<>>
    THEN [inputCost |-> 0, outputCost |-> 0, totalCost |-> 0,
          inputTokens |-> inputTokens, outputTokens |-> outputTokens,
          model |-> model, tieredPricingApplied |-> FALSE]
    ELSE CalculateCost(model, pricing[2], inputTokens, outputTokens)

\* what getModelPricing found for the call: nothing when the data could not be had
PricingFor(f, d) == IF d = <<>> THEN <<>> ELSE LookupPricing(CatalogOf(d[1]), f.model)

\* the call has settled; what it did stays on record
PDone(f, res, d) ==
    [IdlePFrame EXCEPT !.op = f.op, !.forceRefresh = f.forceRefresh, !.pc = "done",
                       !.hit = f.hit, !.memAge = f.memAge, !.loaded = f.loaded,
                       !.loadAge = f.loadAge, !.didFetch = f.didFetch,
                       !.fetchFailed = f.fetchFailed, !.didWrite = f.didWrite,
                       !.fallback = f.fallback, !.result = res, !.data = d,
                       !.model = f.model, !.inputTokens = f.inputTokens,
                       !.outputTokens = f.outputTokens, !.requestId = f.requestId,
                       !.pricing = IF f.op = "calculateCost" THEN PricingFor(f, d)
                                   ELSE <<>>,
                       !.calculation =
                           IF f.op = "calculateCost" /\ res # "raised"
                           THEN <<ServiceCalculateCost(PricingFor(f, d), f.model,
                                                       f.inputTokens, f.outputTokens)>>
                           ELSE <<>>]

\* the calls are issued one after the other
PStartable(c) ==
    /\ pframe[c].pc = "idle"
    /\ \A d \in PriceCallers : d < c => pframe[d].pc = "done"

\* getLatestPricing returned d to getPricingData, which stores it with the time
\* it took when it was entered
GlpReturns(c, f, d, res) ==
    /\ pricingDataCache' = <<d>>
    /\ lastFetchTime' = f.now
    /\ pframe' = [pframe EXCEPT ![c] = PDone(f, res, <<d>>)]

\* a getModelPricing without its try/catch
OnPricingErrorRethrows(op) == "raised"

\* what the caller of getPricingData makes of its error: getModelPricing (and
\* calculateCost through it) catches and answers null, refreshCache lets it through
OnPricingError(op) ==
    IF op \in {"getModelPricing", "calculateCost"} THEN "null" ELSE "raised"

\* getLatestPricing threw: getModelPricing catches and answers null,
\* refreshCache lets the error through
GlpRaises(c, f) ==
    /\ pframe' = [pframe EXCEPT ![c] = PDone(f, OnPricingError(f.op), <<>>)]
    /\ UNCHANGED <<pricingDataCache, lastFetchTime>>

PTick ==
    /\ time < MaxTime
    /\ time' = time + 1
    /\ UNCHANGED <<pricingDataCache, lastFetchTime, cacheFile, pframe, memVars, provVars, outVars>>

\* getModelPricing / calculateCost: getPricingData(false) up to its first await
CallGetModelPricing(c) ==
    /\ PStartable(c)
    /\ LET f == [IdlePFrame EXCEPT !.op = "getModelPricing", !.now = time,
                    !.memAge = IF pricingDataCache = <<>> THEN <<>>
                               ELSE <<time - lastFetchTime>>]
       IN  IF MemoryCacheValid(FALSE, pricingDataCache, lastFetchTime, time)
           THEN pframe' = [pframe EXCEPT ![c] =
                             PDone([f EXCEPT !.hit = TRUE], "memory", pricingDataCache)]
           ELSE pframe' = [pframe EXCEPT ![c] = [f EXCEPT !.pc = "glp_load"]]
    /\ UNCHANGED <<pricingDataCache, lastFetchTime, cacheFile, time, memVars, provVars, outVars>>

\* refreshCache: the memory copy is dropped, then getPricingData(true)
CallRefreshCache(c) ==
    /\ PStartable(c)
    /\ pricingDataCache' = <<>>
    /\ lastFetchTime' = 0
    /\ pframe' = [pframe EXCEPT ![c] =
                    [IdlePFrame EXCEPT !.op = "refreshCache", !.forceRefresh = TRUE,
                                       !.now = time, !.pc = "glp_fetch"]]
    /\ UNCHANGED <<cacheFile, time, memVars, provVars, outVars>>

\* clearCache: the memory copy is dropped, then the file is unlinked
CallClearCache(c) ==
    /\ PStartable(c)
    /\ pricingDataCache' = <<>>
    /\ lastFetchTime' = 0
    /\ pframe' = [pframe EXCEPT ![c] =
                    [IdlePFrame EXCEPT !.op = "clearCache", !.pc = "unlink"]]
    /\ UNCHANGED <<cacheFile, time, memVars, provVars, outVars>>

ClearUnlink(c) ==
    /\ pframe[c].pc = "unlink"
    /\ cacheFile' = <<>>
    /\ pframe' = [pframe EXCEPT ![c] = PDone(pframe[c], "cleared", <<>>)]
    /\ UNCHANGED <<pricingDataCache, lastFetchTime, time, memVars, provVars, outVars>>

\* getLatestPricing, not forced: the cache file is loaded and returned if it
\* has not expired
GlpLoad(c) ==
    /\ pframe[c].pc = "glp_load"
    /\ LET cached == LoadFromCache
           f == [pframe[c] EXCEPT !.loaded = TRUE,
                    !.loadAge = IF cached = <<>> THEN <<>>
                                ELSE <<time - cached[1].timestamp>>]
       IN  IF cached # <<>> /\ ~IsCacheExpired(cached[1], time)
           THEN GlpReturns(c, f, cached[1].data, "disk")
           ELSE /\ pframe' = [pframe EXCEPT ![c] = [f EXCEPT !.pc = "glp_fetch"]]
                /\ UNCHANGED <<pricingDataCache, lastFetchTime>>
    /\ UNCHANGED <<cacheFile, time, memVars, provVars, outVars>>

\* fetchFromRemote answers with a catalog
GlpFetchOk(c, d) ==
    /\ pframe[c].pc = "glp_fetch"
    /\ pframe' = [pframe EXCEPT ![c] =
                    [@ EXCEPT !.pc = "glp_save", !.didFetch = TRUE, !.fetched = <<d>>]]
    /\ UNCHANGED <<pricingDataCache, lastFetchTime, cacheFile, time, memVars, provVars, outVars>>

\* fetchFromRemote throws
GlpFetchFails(c) ==
    /\ pframe[c].pc = "glp_fetch"
    /\ pframe' = [pframe EXCEPT ![c] =
                    [@ EXCEPT !.pc = "glp_fallback", !.didFetch = TRUE,
                              !.fetchFailed = TRUE]]
    /\ UNCHANGED <<pricingDataCache, lastFetchTime, cacheFile, time, memVars, provVars, outVars>>

\* saveToCache writes the file; the fetched data is returned
GlpSaveOk(c) ==
    /\ pframe[c].pc = "glp_save"
    /\ cacheFile' = <<[timestamp |-> time, data |-> pframe[c].fetched[1]]>>
    /\ GlpReturns(c, [pframe[c] EXCEPT !.didWrite = TRUE], pframe[c].fetched[1], "remote")
    /\ UNCHANGED <<time, memVars, provVars, outVars>>

\* saveToCache throws inside the try block: the catch block takes over
GlpSaveFails(c) ==
    /\ pframe[c].pc = "glp_save"
    /\ pframe' = [pframe EXCEPT ![c] = [@ EXCEPT !.pc = "glp_fallback"]]
    /\ UNCHANGED <<pricingDataCache, lastFetchTime, cacheFile, time, memVars, provVars, outVars>>

\* the catch block: the cache file is loaded again and returned whatever its
\* age; without it the call throws
GlpFallback(c) ==
    /\ pframe[c].pc = "glp_fallback"
    /\ LET cached == LoadFromCache
       IN  IF cached # <<>>
           THEN GlpReturns(c, [pframe[c] EXCEPT !.fallback = "cache"],
                           cached[1].data, "stale")
           ELSE GlpRaises(c, [pframe[c] EXCEPT !.fallback = "nocache"])
    /\ UNCHANGED <<cacheFile, time, memVars, provVars, outVars>>

PricingNext ==
    \/ PTick
    \/ \E c \in PriceCallers : CallGetModelPricing(c)
    \/ \E c \in PriceCallers : CallRefreshCache(c)
    \/ \E c \in PriceCallers : CallClearCache(c)
    \/ \E c \in PriceCallers : ClearUnlink(c)
    \/ \E c \in PriceCallers : GlpLoad(c)
    \/ \E c \in PriceCallers, d \in PricingDatas : GlpFetchOk(c, d)
    \/ \E c \in PriceCallers : GlpFetchFails(c)
    \/ \E c \in PriceCallers : GlpSaveOk(c)
    \/ \E c \in PriceCallers : GlpSaveFails(c)
    \/ \E c \in PriceCallers : GlpFallback(c)

\* pricing calls, possibly overlapping, while time passes
SpecPricing == Init /\ [][PricingNext]_vars

\* ---- calls that do not wait for one another ----

\* the calls are numbered in the order they are issued; an earlier call may
\* still be awaiting its load
PIssuable(c) ==
    /\ pframe[c].pc = "idle"
    /\ \A d \in PriceCallers : d < c => pframe[d].pc # "idle"

\* getModelPricing while earlier calls may be in flight
IssueGetModelPricing(c) ==
    /\ PIssuable(c)
    /\ LET f == [IdlePFrame EXCEPT !.op = "getModelPricing", !.now = time,
                    !.memAge = IF pricingDataCache = <<>> THEN <<>>
                               ELSE <<time - lastFetchTime>>]
       IN  IF MemoryCacheValid(FALSE, pricingDataCache, lastFetchTime, time)
           THEN pframe' = [pframe EXCEPT ![c] =
                             PDone([f EXCEPT !.hit = TRUE], "memory", pricingDataCache)]
           ELSE pframe' = [pframe EXCEPT ![c] = [f EXCEPT !.pc = "glp_load"]]
    /\ UNCHANGED <<pricingDataCache, lastFetchTime, cacheFile, time, memVars, provVars, outVars>>

\* refreshCache while earlier calls may be in flight
IssueRefreshCache(c) ==
    /\ PIssuable(c)
    /\ pricingDataCache' = <<>>
    /\ lastFetchTime' = 0
    /\ pframe' = [pframe EXCEPT ![c] =
                    [IdlePFrame EXCEPT !.op = "refreshCache", !.forceRefresh = TRUE,
                                       !.now = time, !.pc = "glp_fetch"]]
    /\ UNCHANGED <<cacheFile, time, memVars, provVars, outVars>>

\* clearCache while earlier calls may be in flight
IssueClearCache(c) ==
    /\ PIssuable(c)
    /\ pricingDataCache' = <<>>
    /\ lastFetchTime' = 0
    /\ pframe' = [pframe EXCEPT ![c] =
                    [IdlePFrame EXCEPT !.op = "clearCache", !.pc = "unlink"]]
    /\ UNCHANGED <<cacheFile, time, memVars, provVars, outVars>>

OverlapNext ==
    \/ PTick
    \/ \E c \in PriceCallers : IssueGetModelPricing(c)
    \/ \E c \in PriceCallers : IssueRefreshCache(c)
    \/ \E c \in PriceCallers : IssueClearCache(c)
    \/ \E c \in PriceCallers : ClearUnlink(c)
    \/ \E c \in PriceCallers : GlpLoad(c)
    \/ \E c \in PriceCallers, d \in PricingDatas : GlpFetchOk(c, d)
    \/ \E c \in PriceCallers : GlpFetchFails(c)
    \/ \E c \in PriceCallers : GlpSaveOk(c)
    \/ \E c \in PriceCallers : GlpSaveFails(c)
    \/ \E c \in PriceCallers : GlpFallback(c)

\* pricing calls of one process that overlap at their awaits
SpecOverlap == Init /\ [][OverlapNext]_vars

\* ---- cost resolution for a tracked request ----

\* the token counts asked about: below, at and above the threshold
TokenCounts == {<<1000, 500>>, <<200000, 200000>>, <<250000, 200001>>}

\* complete(requestId, {usage}) has the cost resolved by
\* calculateCost(model, inputTokens, outputTokens), which starts with
\* getModelPricing and so with getPricingData(false); the record of the request
\* was opened when the request started, and the requests come one at a time
CallCalculateCost(c, model, inputTokens, outputTokens) ==
    /\ PStartable(c)
    /\ \A d \in PriceCallers : d < c => pframe[d].recorded
    /\ llmRequests' = TrackLLMRequest(llmRequests)
    /\ LET f == [IdlePFrame EXCEPT !.op = "calculateCost", !.now = time,
                    !.model = model, !.inputTokens = inputTokens,
                    !.outputTokens = outputTokens,
                    !.requestId = Len(llmRequests) + 1,
                    !.memAge = IF pricingDataCache = <<>> THEN <<>>
                               ELSE <<time - lastFetchTime>>]
       IN  IF MemoryCacheValid(FALSE, pricingDataCache, lastFetchTime, time)
           THEN pframe' = [pframe EXCEPT ![c] =
                             PDone([f EXCEPT !.hit = TRUE], "memory", pricingDataCache)]
           ELSE pframe' = [pframe EXCEPT ![c] = [f EXCEPT !.pc = "glp_load"]]
    /\ UNCHANGED <<pricingDataCache, lastFetchTime, cacheFile, time, memVars,
                   call, upstream, yielded, outVars>>

\* the terminal update of complete: status success with the cost resolved, 0
\* when the resolution gave no cost
CompleteWithCost(recs, requestId, calculation) ==
    [recs EXCEPT ![requestId] =
        [costUSD |-> IF calculation = <<>> THEN 0 ELSE calculation[1].totalCost]
           @@ UpdateLLMCompletion(recs, requestId, "", "stop", <<>>)[requestId]]

\* the tracker writes the completion once calculateCost has come back
TrackerComplete(c) ==
    /\ pframe[c].op = "calculateCost"
    /\ pframe[c].pc = "done"
    /\ ~pframe[c].recorded
    /\ llmRequests' = CompleteWithCost(llmRequests, pframe[c].requestId,
                                       pframe[c].calculation)
    /\ pframe' = [pframe EXCEPT ![c].recorded = TRUE]
    /\ UNCHANGED <<pricingDataCache, lastFetchTime, cacheFile, time, memVars,
                   call, upstream, yielded, outVars>>

CostNext ==
    \/ \E c \in PriceCallers, model \in ModelNames, n \in TokenCounts :
          CallCalculateCost(c, model, n[1], n[2])
    \/ \E c \in PriceCallers : GlpLoad(c)
    \/ \E c \in PriceCallers, d \in PricingDatas : GlpFetchOk(c, d)
    \/ \E c \in PriceCallers : GlpFetchFails(c)
    \/ \E c \in PriceCallers : GlpSaveOk(c)
    \/ \E c \in PriceCallers : GlpSaveFails(c)
    \/ \E c \in PriceCallers : GlpFallback(c)
    \/ \E c \in PriceCallers : TrackerComplete(c)

\* cost resolutions for tracked requests, one after the other, within the
\* five minutes of the memory cache
SpecCost == Init /\ [][CostNext]_vars

\* models asked for under the very name of a catalog key, and one unknown name
CatalogKeyNames == {Gpt4o, UpperO3, XaiGrok3, Zz}

KeysNext ==
    \/ \E c \in PriceCallers, model \in CatalogKeyNames :
          CallCalculateCost(c, model, 1000, 500)
    \/ \E c \in PriceCallers : GlpLoad(c)
    \/ \E c \in PriceCallers, d \in PricingDatas : GlpFetchOk(c, d)
    \/ \E c \in PriceCallers : GlpFetchFails(c)
    \/ \E c \in PriceCallers : GlpSaveOk(c)
    \/ \E c \in PriceCallers : GlpSaveFails(c)
    \/ \E c \in PriceCallers : GlpFallback(c)
    \/ \E c \in PriceCallers : TrackerComplete(c)

\* cost resolutions for models named by catalog keys
SpecKeys == Init /\ [][KeysNext]_vars

-----------------------------------------------------------------------------
(* PricingFetcher.fetchFromRemote: the filter applied to the remote catalog *)

\* the most entries a remote catalog has
MaxEntries == 4

\* the substrings of a model name for which fetchFromRemote skips the entry
SkipSubstrings ==
    { <<"d", "a", "l", "l", "-", "e">>,
      <<"w", "h", "i", "s", "p", "e", "r">>,
      <<"t", "t", "s">>,
      <<"e", "m", "b", "e", "d", "d", "i", "n", "g">>,
      <<"m", "o", "d", "e", "r", "a", "t", "i", "o", "n">>,
      <<"f", "l", "u", "x">>,
      <<"s", "t", "a", "b", "l", "e", "-", "d", "i", "f", "f", "u", "s", "i", "o", "n">>,
      <<"s", "a", "m", "p", "l", "e", "_", "s", "p", "e", "c">> }

\* a field of a raw entry: <<>> when undefined, else its JSON type and value
Undefined == <<>>
Num(n) == <<"number", n>>
Str(n) == <<"string", n>>

RawEntry(inCost, outCost, inImage, outImage, image) ==
    [input_cost_per_token |-> inCost, output_cost_per_token |-> outCost,
     input_cost_per_image |-> inImage, output_cost_per_image |-> outImage,
     cost_per_image |-> image]

\* the entries the remote catalog may hold, by model name
RawNames ==
    { Gpt4o, O3, Grok3, Zz,
      <<"d", "a", "l", "l", "-", "e", "-", "3">>,
      <<"t", "t", "s", "-", "1">>,
      <<"a", "z", "u", "r", "e", "/", "w", "h", "i", "s", "p", "e", "r">>,
      <<"i", "m", "a", "g", "e", "n">> }

RawEntryOf(name) ==
    CASE name = Gpt4o -> RawEntry(Num(2), Num(4), Undefined, Undefined, Undefined)
      [] name = O3 -> RawEntry(Num(2), Undefined, Undefined, Undefined, Undefined)
      [] name = Grok3 -> RawEntry(Num(1), Num(1), Undefined, Undefined, Num(3))
      [] name = Zz -> RawEntry(Str(2), Num(4), Undefined, Undefined, Undefined)
      [] name = <<"d", "a", "l", "l", "-", "e", "-", "3">> -> RawEntry(Undefined, Undefined, Undefined, Undefined, Num(4))
      [] name = <<"t", "t", "s", "-", "1">> -> RawEntry(Num(1), Num(1), Undefined, Undefined, Undefined)
      [] name = <<"a", "z", "u", "r", "e", "/", "w", "h", "i", "s", "p", "e", "r">> -> RawEntry(Num(1), Num(0), Undefined, Undefined, Undefined)
      [] name = <<"i", "m", "a", "g", "e", "n">> -> RawEntry(Undefined, Undefined, Num(2), Undefined, Undefined)

\* the catalogs the remote may answer with: an object keyed by model name
RawCatalogs ==
    { [name \in names |-> RawEntryOf(name)] :
        names \in {S \in SUBSET RawNames : Cardinality(S) <= MaxEntries} }

\* modelName.includes(...) for one of the skipped kinds of model
SkippedByName(modelName) == \E part \in SkipSubstrings : Includes(modelName, part)

\* z.number().optional(): undefined, or a number
OptionalNumber(field) == field = Undefined \/ field[1] = "number"

\* ModelPricingSchema.parse does not throw: the fields have their types and the
\* entry has token-based or image-based pricing
SchemaParses(entry) ==
    /\ OptionalNumber(entry.input_cost_per_token)
    /\ OptionalNumber(entry.output_cost_per_token)
    /\ OptionalNumber(entry.input_cost_per_image)
    /\ OptionalNumber(entry.output_cost_per_image)
    /\ OptionalNumber(entry.cost_per_image)
    /\ LET hasTokenPricing == /\ entry.input_cost_per_token # Undefined
                              /\ entry.output_cost_per_token # Undefined
           hasImagePricing == \/ entry.input_cost_per_image # Undefined
                              \/ entry.output_cost_per_image # Undefined
                              \/ entry.cost_per_image # Undefined
       IN  hasTokenPricing \/ hasImagePricing

\* the loop body of fetchFromRemote: whether the entry goes into filteredData
\* (a schema error is caught and the entry skipped)
Included(modelName, entry) ==
    /\ ~SkippedByName(modelName)
    /\ entry.input_cost_per_token # Undefined
    /\ entry.output_cost_per_token # Undefined
    /\ SchemaParses(entry)

FilteredData(rawData) ==
    LET kept == {name \in DOMAIN rawData : Included(name, rawData[name])}
    IN  [name \in kept |-> rawData[name]]

\* fetchFromRemote: reads the response; throws when it is not ok, otherwise
\* returns the filtered catalog
FetchFromRemote(ok, rawData) ==
    /\ fetched' = IF ok
                  THEN [ok |-> TRUE, rawData |-> rawData, filteredData |-> FilteredData(rawData)]
                  ELSE [ok |-> FALSE, rawData |-> <<>>, filteredData |-> <<>>]
    /\ UNCHANGED <<memVars, provVars, priceVars, context, listed, sent, ecall>>

IngestNext ==
    \E ok \in BOOLEAN, rawData \in RawCatalogs : FetchFromRemote(ok, rawData)

\* fetches of the remote catalog
SpecIngest == Init /\ [][IngestNext]_vars

-----------------------------------------------------------------------------
(* OpenAIProvider: the options handed to generateText and streamText *)

Gpt5 == <<"g", "p", "t", "-", "5">>
Gpt5Mini == <<"g", "p", "t", "-", "5", "-", "m", "i", "n", "i">>
O1 == <<"o", "1">>
O3Mini == <<"o", "3", "-", "m", "i", "n", "i">>

\* request.model: left out (<<>>), or a model name
RequestModels == {<<>>, Gpt5, Gpt5Mini, O1, O3, O3Mini, Gpt4o}

\* config.openai.preferredModel: not set (<<>>), or a model name
PreferredModels == {<<>>, O3Mini}

\* request.temperature in tenths; <<>> when the request leaves it out
Temperatures == {<<>>, <<0>>, <<2>>, <<10>>}

\* getPreferredModel: config.openai?.preferredModel || getDefaultModel()
GetPreferredModel(preferred) == IF preferred = <<>> THEN Gpt5 ELSE preferred

\* (model === 'gpt-5' || model === 'o3') ? 1 : (request.temperature ?? 0.7)
EnforcedTemperature(model, temperature) ==
    IF model = Gpt5 \/ model = O3 THEN 10
    ELSE IF temperature = <<>> THEN 7 ELSE temperature[1]

\* generateText / streamText up to the SDK call it awaits: the model is chosen,
\* the temperature settled, the tracking record opened and the options handed
\* to the SDK
OpenAIStart(method, requestModel, temperature, preferred, up) ==
    LET model == IF requestModel = <<>> THEN GetPreferredModel(preferred) ELSE requestModel
    IN  /\ call.pc = "idle"
        /\ llmRequests' = TrackLLMRequest(llmRequests)
        /\ call' = [IdleCall EXCEPT !.adapter = "openai", !.method = method,
                                    !.pc = "request", !.requestId = Len(llmRequests) + 1]
        /\ upstream' = up
        /\ sent' = Append(sent, [kind |-> method, model |-> model,
                                 temperature |-> EnforcedTemperature(model, temperature),
                                 values |-> <<>>])
        /\ UNCHANGED <<yielded, memVars, priceVars, context, fetched, listed, ecall>>

OpenAINext ==
    \/ \E m \in Methods, requestModel \in RequestModels, temperature \in Temperatures,
          preferred \in PreferredModels :
          \E up \in Upstreams("openai", m) :
             OpenAIStart(m, requestModel, temperature, preferred, up)
    \/ RequestFails
    \/ GenerateReturns
    \/ SdkStreamChunk
    \/ SdkStreamFinish
    \/ SdkStreamError

\* one request through the OpenAI adapter
SpecOpenAI == Init /\ [][OpenAINext]_vars

-----------------------------------------------------------------------------
(* EmbeddingProvider.getEmbeddings *)

\* the most texts one getEmbeddings call is given
MaxTexts == 2

EmbeddingProviders == {"openai", "azure", "gemini", "openai-compatible", "bailian"}
EmbedTexts == UNION {[1..n -> {"a", "b"}] : n \in 0..MaxTexts}

\* the embedding the upstream computes for a text
EmbeddingOf(text) == <<"embedding", text>>

\* every provider is sent the whole list in one embedMany call
SequentialNever(provider) == FALSE

\* this.config.provider === 'azure': one embed call per text
Sequential(provider) == provider = "azure"

\* getEmbeddings up to its first await of the SDK: getEmbeddingModel throws when
\* the provider is not configured; otherwise the Azure loop starts, or the one
\* embedMany call is made
CallGetEmbeddings(provider, texts, configured) ==
    /\ ecall.pc = "idle"
    /\ IF ~configured
       THEN /\ ecall' = [IdleEmbed EXCEPT !.provider = provider, !.texts = texts,
                                          !.pc = "thrown"]
            /\ UNCHANGED sent
       ELSE IF Sequential(provider)
       THEN /\ ecall' = [IdleEmbed EXCEPT !.provider = provider, !.texts = texts,
                            !.pc = IF texts = <<>> THEN "returned" ELSE "embed"]
            /\ sent' = IF texts = <<>> THEN sent
                       ELSE Append(sent, [kind |-> "embed", model |-> <<>>,
                                          temperature |-> 0, values |-> <<texts[1]>>])
       ELSE /\ ecall' = [IdleEmbed EXCEPT !.provider = provider, !.texts = texts,
                                          !.pc = "embedMany"]
            /\ sent' = Append(sent, [kind |-> "embedMany", model |-> <<>>,
                                     temperature |-> 0, values |-> texts])
    /\ UNCHANGED <<memVars, provVars, priceVars, context, fetched, listed>>

\* the awaited embed call returns: the embedding is pushed and the loop goes on
\* to the next text, or the list is returned
EmbedReturns ==
    LET k == Len(ecall.embeddings) + 1
    IN  /\ ecall.pc = "embed"
        /\ ecall' = [ecall EXCEPT !.embeddings = Append(@, EmbeddingOf(ecall.texts[k])),
                                  !.pc = IF k = Len(ecall.texts) THEN "returned" ELSE "embed"]
        /\ sent' = IF k = Len(ecall.texts) THEN sent
                   ELSE Append(sent, [kind |-> "embed", model |-> <<>>,
                                      temperature |-> 0, values |-> <<ecall.texts[k + 1]>>])
        /\ UNCHANGED <<memVars, provVars, priceVars, context, fetched, listed>>

\* the awaited embedMany call returns result.embeddings
EmbedManyReturns ==
    /\ ecall.pc = "embedMany"
    /\ ecall' = [ecall EXCEPT !.pc = "returned",
                    !.embeddings = [k \in DOMAIN ecall.texts |-> EmbeddingOf(ecall.texts[k])]]
    /\ UNCHANGED <<sent, memVars, provVars, priceVars, context, fetched, listed>>

\* the awaited SDK call rejects: the error is logged and thrown again as
\* 'Failed to generate embeddings'
EmbedFails ==
    /\ ecall.pc \in {"embed", "embedMany"}
    /\ ecall' = [ecall EXCEPT !.pc = "thrown"]
    /\ UNCHANGED <<sent, memVars, provVars, priceVars, context, fetched, listed>>

EmbedNext ==
    \/ \E provider \in EmbeddingProviders, texts \in EmbedTexts, configured \in BOOLEAN :
          CallGetEmbeddings(provider, texts, configured)
    \/ EmbedReturns
    \/ EmbedManyReturns
    \/ EmbedFails

\* one getEmbeddings call
SpecEmbed == Init /\ [][EmbedNext]_vars

-----------------------------------------------------------------------------
(* Claims about addMessage, checked under SpecMessages *)

MessageCalls(sid) ==
    {c \in Callers : frame[c].op = "addMessage" /\ frame[c].sid = sid}

IndexSet(sid) ==
    {conversationMessages[i].messageIndex :
        i \in SelectIdx(conversationMessages, LAMBDA r : r.sessionId = sid)}

\* C1: no two stored messages of one session ever have the same messageIndex,
\* whatever the interleaving of the addMessage calls on it.
C1_UniqueMessageIndex ==
    \A i, j \in DOMAIN conversationMessages :
        (i # j /\ conversationMessages[i].sessionId = conversationMessages[j].sessionId)
            => conversationMessages[i].messageIndex # conversationMessages[j].messageIndex

\* witness of C1: two calls issued on the same session while it held the same
\* number of messages (they overlapped) have both stored their message
C1_Witness ==
    \E i, j \in DOMAIN conversationMessages :
        /\ i < j
        /\ conversationMessages[i].sessionId = conversationMessages[j].sessionId
        /\ conversationMessages[i].began = conversationMessages[j].began

\* C2: N addMessage calls issued in parallel on a fresh session (every one of them
\* was issued while the session was still empty) all complete successfully and
\* leave exactly N rows with the indices 0..N-1.
C2_ParallelAddMessages ==
    \A sid \in SessionIds :
        LET cs == MessageCalls(sid)
        IN  (/\ cs # {}
             /\ \A c \in cs : frame[c].pc = "done" /\ frame[c].began = 0)
            => /\ \A c \in cs : frame[c].result = "ok"
               /\ Len(MessagesOf(sid)) = Cardinality(cs)
               /\ IndexSet(sid) = 0..(Cardinality(cs) - 1)

\* C2 restricted to the manager that wraps the statements in db.transaction
C2_ParallelAddMessagesTx ==
    \A sid \in SessionIds :
        LET cs == MessageCalls(sid)
        IN  (/\ cs # {}
             /\ \A c \in cs : frame[c].pc = "done" /\ frame[c].began = 0
                                /\ frame[c].impl = "tx")
            => /\ \A c \in cs : frame[c].result = "ok"
               /\ Len(MessagesOf(sid)) = Cardinality(cs)
               /\ IndexSet(sid) = 0..(Cardinality(cs) - 1)

\* C3: in every reachable state the indices of a session's n messages are exactly
\* 0..n-1, and a message that was stored before another message's call was issued
\* has the smaller index.
C3_DenseOrderedIndex ==
    \A sid \in SessionIds :
        LET ms == MessagesOf(sid)
        IN  /\ {ms[i].messageIndex : i \in DOMAIN ms} = 0..(Len(ms) - 1)
            /\ \A i, j \in DOMAIN ms :
                  ms[j].began >= i => ms[i].messageIndex < ms[j].messageIndex

\* witness of C3: a session holds a message whose call was issued after an earlier
\* message was stored, next to one stored by an overlapping call
C3_Witness ==
    \E sid \in SessionIds :
        LET ms == MessagesOf(sid)
        IN  /\ Len(ms) >= 3
            /\ \E j \in DOMAIN ms : ms[j].began >= 1
            /\ \E i, j \in DOMAIN ms : i < j /\ ms[i].began = ms[j].began

-----------------------------------------------------------------------------
(* Claims about addFiles, checked under SpecFiles *)

FileRowsFor(sid, body) ==
    ExistingFiles(conversationFiles, sid, {Sha256(body)})

\* C4: whatever the interleaving of the addFiles calls that add the same content to
\* one session, the session never holds two rows with the same contentHash, every
\* call completes successfully, and a completed call's content has exactly one row.
C4_ConcurrentAddFilesDedup ==
    /\ \A i, j \in DOMAIN conversationFiles :
          (i # j /\ conversationFiles[i].sessionId = conversationFiles[j].sessionId)
              => conversationFiles[i].contentHash # conversationFiles[j].contentHash
    /\ \A c \in FileCallers :
          (frame[c].op = "addFiles" /\ frame[c].pc = "done")
              => /\ frame[c].result = "ok"
                 /\ \A k \in DOMAIN frame[c].files :
                       Cardinality(FileRowsFor(frame[c].sid, frame[c].files[k])) = 1

\* C4 restricted to the manager that wraps the statements in db.transaction
C4_ConcurrentAddFilesDedupTx ==
    \A c \in FileCallers :
        (frame[c].op = "addFiles" /\ frame[c].pc = "done" /\ frame[c].impl = "tx")
            => /\ frame[c].result = "ok"
               /\ \A k \in DOMAIN frame[c].files :
                     Cardinality(FileRowsFor(frame[c].sid, frame[c].files[k])) = 1

\* the addFiles calls issued so far on a session
AddFilesCalls(sid) ==
    {c \in FileCallers : frame[c].op = "addFiles" /\ frame[c].sid = sid}

FilesOfSession(sid) ==
    {i \in DOMAIN conversationFiles : conversationFiles[i].sessionId = sid}

\* C19: addFiles(S, [f]) followed by a second addFiles(S, [f]) with the same
\* content leaves the number of file rows of S unchanged and raises the file's
\* accessCount by exactly 1: one row with accessCount 0 after the first call,
\* the same single row with accessCount 1 after the second.
C19_AddFilesTwice ==
    \A sid \in SessionIds, b \in FileBodies :
        LET cs   == AddFilesCalls(sid)
            ok   == \A c \in cs : /\ frame[c].pc = "done"
                                  /\ frame[c].result = "ok"
                                  /\ frame[c].files = <<b>>
            rows == FilesOfSession(sid)
        IN  /\ (Cardinality(cs) = 1 /\ ok)
               => /\ Cardinality(rows) = 1
                  /\ \A i \in rows : conversationFiles[i].accessCount = 0
            /\ (Cardinality(cs) = 2 /\ ok)
               => /\ Cardinality(rows) = 1
                  /\ \A i \in rows : /\ conversationFiles[i].contentHash = Sha256(b)
                                     /\ conversationFiles[i].accessCount = 1

\* both calls of addFiles(s1, [HELLO]) have returned
C19_Witness ==
    /\ Cardinality(AddFilesCalls("s1")) = 2
    /\ \A c \in AddFilesCalls("s1") :
          frame[c].pc = "done" /\ frame[c].result = "ok" /\ frame[c].files = <<"HELLO">>
    /\ \E i \in FilesOfSession("s1") : conversationFiles[i].accessCount = 1

-----------------------------------------------------------------------------
(* Claims about the adapters and the tracking records, checked under SpecProvider *)

Opened == call.requestId # 0
Ended == call.pc \in {"returned", "thrown"}
FetchStream == call.adapter = "bailian" /\ call.method = "streamText"

\* C5: at most one terminal update (success or error) is ever issued for the
\* requestId of a tracking record, on every exit path of the adapter call.
C5_AtMostOneTerminalUpdate ==
    \A id \in DOMAIN llmRequests : llmRequests[id].updates <= 1

\* C5 witness: a streaming call that yielded a chunk and then failed on a later
\* read has thrown with exactly one update issued for its record.
C5_Witness ==
    /\ Opened /\ FetchStream /\ call.pc = "thrown"
    /\ yielded # <<>>
    /\ Rec.updates = 1

\* C6: once the upstream call has completed or failed and the adapter call has
\* ended (returned or thrown), its tracking record has received a terminal
\* update and is success or error, never still pending.
C6_EndedCallIsTerminal ==
    (Opened /\ Ended) =>
        /\ Rec.updates >= 1
        /\ Rec.status \in {"success", "error"}

\* C7: when the upstream request fails after the record was opened (non-2xx
\* response or transport error), the record has status error by the time the
\* error reaches the caller.
C7_ErrorRecordedBeforeThrow ==
    (Opened /\ call.pc = "thrown") =>
        /\ Rec.status = "error"
        /\ Rec.errorMessage # ""

\* C7 witness: generateText of a fetch-based adapter has thrown on a non-2xx
\* response and the record carries the error.
C7_Witness ==
    /\ Opened /\ call.pc = "thrown"
    /\ call.adapter = "bailian" /\ call.method = "generateText"
    /\ upstream.outcome = "httpError"
    /\ Rec.status = "error"

\* C8: when the caller cancels a streaming call in flight, the upstream request
\* is aborted, the body reader is released and the record is marked error with
\* message "canceled".
C8_CancelClosesEverything ==
    (Opened /\ call.pc = "cancelled") =>
        /\ upstream.aborted
        /\ ~call.readerLocked
        /\ Rec.status = "error"
        /\ Rec.errorMessage = "canceled"

RECURSIVE DeltasOf(_)
\* the content deltas carried by complete data lines, in order, up to the first
\* [DONE] line
DeltasOf(lines) ==
    IF lines = <<>> THEN <<>>
    ELSE LET line == Head(lines)
             data == Tail(line)
         IN  IF ~StartsWithData(line) THEN DeltasOf(Tail(lines))
             ELSE IF data = <<"[DONE]">> THEN <<>>
             ELSE IF Parse(data).ok /\ Parse(data).content # ""
                  THEN <<Parse(data).content>> \o DeltasOf(Tail(lines))
             ELSE DeltasOf(Tail(lines))

\* the deltas the upstream sent before termination: those of the newline-
\* terminated lines of the body
SentDeltas == DeltasOf(Front(Split(upstream.body)))

Min(a, b) == IF a <= b THEN a ELSE b

C10_DoneTerminatesStream ==
    FetchStream =>
        /\ Len(yielded) <= Len(SentDeltas)
        /\ call.pc = "returned" => Rec.responseText = Concat(SentDeltas)

\* the complete lines of the body
BodyLines == Front(Split(upstream.body))

\* a complete data line whose payload is not valid JSON
InvalidLine(line) ==
    StartsWithData(line) /\ Tail(line) # <<"[DONE]">> /\ Tail(line) = <<"{content:He">>

HasInvalidLine == \E i \in DOMAIN BodyLines : InvalidLine(BodyLines[i])
HasDoneLine == \E i \in DOMAIN BodyLines : BodyLines[i] = <<"data: ", "[DONE]">>

\* the contents of the valid delta lines of the body, the invalid ones left out
ValidContents ==
    LET Content(line) == IF line = <<"data: ", "{content:He", "}">> THEN <<"He">>
                         ELSE IF line = <<"data: ", "{content:llo", "}">> THEN <<"llo">>
                         ELSE <<>>
        F[i \in 0..Len(BodyLines)] ==
            IF i = 0 THEN <<>> ELSE F[i - 1] \o Content(BodyLines[i])
    IN  F[Len(BodyLines)]

\* C11: a data line whose payload is not valid JSON is skipped silently: in a
\* body that holds such a line (and no [DONE]) the chunks yielded are always the
\* first valid deltas of the body, none comes from the invalid line, and when the
\* body was read to its end every valid delta, those after the invalid line
\* included, was yielded and the record is success.
C11_InvalidJsonSkipped ==
    (FetchStream /\ HasInvalidLine /\ ~HasDoneLine) =>
        /\ Len(yielded) <= Len(ValidContents)
        /\ yielded = SubSeq(ValidContents, 1, Len(yielded))
        /\ call.pc = "returned" =>
              /\ yielded = ValidContents
              /\ Rec.status = "success"
              /\ Rec.responseText = Concat(ValidContents)

\* C11 witness: the body "He", a line of cut-short JSON, "llo" was read to its
\* end; "He" and "llo" were yielded and the record is success.
C11_Witness ==
    /\ FetchStream /\ call.pc = "returned"
    /\ upstream.body = Join(<< <<"data: ", "{content:He", "}">>,
                               <<"data: ", "{content:He">>,
                               <<"data: ", "{content:llo", "}">> >>, TRUE)
    /\ yielded = <<"He", "llo">>
    /\ Rec.status = "success" /\ Rec.responseText = "Hello"

-----------------------------------------------------------------------------
(* Claims about pricing, checked under SpecPricing *)

\* the call has settled and no later call has been issued: the caches are as
\* the call left them
Latest(c) ==
    /\ pframe[c].pc = "done"
    /\ \A d \in PriceCallers : d > c => pframe[d].pc = "idle"

\* the call went through getLatestPricing
ThroughGlp(c) ==
    pframe[c].op \in {"getModelPricing", "refreshCache"} /\ ~pframe[c].hit

\* getLatestPricing threw (getModelPricing turns that into a null answer)
GlpRaised(c) == pframe[c].result \in {"raised", "null"}

\* C12: when the remote fetch fails, getLatestPricing returns the data of the
\* disk cache, whatever its age, if a disk cache exists, and raises if and only
\* if none exists.
C12_StaleFallback ==
    \A c \in PriceCallers :
        (Latest(c) /\ ThroughGlp(c) /\ pframe[c].fetchFailed) =>
            IF cacheFile # <<>>
            THEN /\ pframe[c].result = "stale"
                 /\ pframe[c].data = <<cacheFile[1].data>>
            ELSE /\ GlpRaised(c)
                 /\ pframe[c].data = <<>>

\* C12 witness: an unforced call found the disk cache older than its ttl, the
\* remote fetch failed, and the call returned the stale data.
C12_Witness ==
    \E c \in PriceCallers :
        /\ Latest(c) /\ pframe[c].fetchFailed
        /\ pframe[c].loadAge # <<>> /\ pframe[c].loadAge[1] > DEFAULT_TTL
        /\ pframe[c].result = "stale"
        /\ pframe[c].data = <<cacheFile[1].data>>

C14_MemoryCacheTtl ==
    \A c \in PriceCallers :
        pframe[c].op = "getModelPricing" =>
            IF pframe[c].memAge # <<>> /\ pframe[c].memAge[1] < MEMORY_CACHE_TTL
            THEN /\ pframe[c].pc = "done" /\ pframe[c].hit
                 /\ pframe[c].result = "memory"
                 /\ ~pframe[c].loaded /\ ~pframe[c].didFetch /\ ~pframe[c].didWrite
                 /\ Latest(c) => pframe[c].data = pricingDataCache
            ELSE /\ ~pframe[c].hit
                 /\ pframe[c].pc = "done" => (pframe[c].loaded \/ pframe[c].didFetch)

\* C14 witness: a lookup made with a copy loaded less than 5 minutes earlier was
\* answered from memory.
C14_Witness ==
    \E c \in PriceCallers :
        /\ Latest(c) /\ pframe[c].op = "getModelPricing"
        /\ pframe[c].memAge # <<>> /\ pframe[c].memAge[1] < MEMORY_CACHE_TTL
        /\ pframe[c].hit /\ pframe[c].data = pricingDataCache /\ pframe[c].data # <<>>

-----------------------------------------------------------------------------
(* Claims about the budget operations *)

UsageCalls(sid) ==
    {c \in BudgetCallers : frame[c].op = "updateBudgetUsage" /\ frame[c].sid = sid}

\* the deltas of a set of calls, added up per counter
RECURSIVE TotalDelta(_)
TotalDelta(cs) ==
    IF cs = {} THEN [tokens |-> 0, costUsd |-> 0, durationMs |-> 0]
    ELSE LET c    == CHOOSE x \in cs : TRUE
             rest == TotalDelta(cs \ {c})
             d    == frame[c].delta
         IN  [tokens |-> rest.tokens + d.tokens, costUsd |-> rest.costUsd + d.costUsd,
              durationMs |-> rest.durationMs + d.durationMs]

\* every updateBudgetUsage call on the session has returned, and which of them
\* found the budget row
UsageSettled(sid) == \A c \in UsageCalls(sid) : frame[c].pc = "done"
UsageApplied(sid) == {c \in UsageCalls(sid) : frame[c].existing # 0}

\* C15: whatever the interleaving of concurrent updateBudgetUsage calls on a
\* session that has a budget, once they have returned each used-counter has grown
\* (from its default 0) by exactly the sum of the deltas of the calls: no update
\* is lost.
C15_NoLostUpdate ==
    \A sid \in SessionIds :
        LET i   == BudgetOf(conversationBudgets, sid)
            sum == TotalDelta(UsageApplied(sid))
        IN  (i # 0 /\ UsageSettled(sid))
            => /\ conversationBudgets[i].usedTokens = sum.tokens
               /\ conversationBudgets[i].usedCostUsd = sum.costUsd
               /\ conversationBudgets[i].usedDurationMs = sum.durationMs

\* C15 restricted to the manager that wraps the statements in db.transaction
C15_NoLostUpdateTx ==
    \A sid \in SessionIds :
        LET i   == BudgetOf(conversationBudgets, sid)
            sum == TotalDelta(UsageApplied(sid))
        IN  (i # 0 /\ UsageSettled(sid) /\ \A c \in UsageCalls(sid) : frame[c].impl = "tx")
            => /\ conversationBudgets[i].usedTokens = sum.tokens
               /\ conversationBudgets[i].usedCostUsd = sum.costUsd
               /\ conversationBudgets[i].usedDurationMs = sum.durationMs

\* two transactional calls have both added to the budget of one session
C15_WitnessTx ==
    \E sid \in SessionIds :
        /\ UsageSettled(sid)
        /\ Cardinality(UsageApplied(sid)) = 2
        /\ \A c \in UsageCalls(sid) : frame[c].impl = "tx"

\* no used-counter of a stored budget row is smaller after the step than before
UsedKept ==
    \A i \in DOMAIN conversationBudgets :
        /\ conversationBudgets'[i].usedTokens >= conversationBudgets[i].usedTokens
        /\ conversationBudgets'[i].usedCostUsd >= conversationBudgets[i].usedCostUsd
        /\ conversationBudgets'[i].usedDurationMs >= conversationBudgets[i].usedDurationMs

NonNegative(d) == d.tokens >= 0 /\ d.costUsd >= 0 /\ d.durationMs >= 0

\* C16: across any sequence of conversation-memory operations, with any delta
\* arguments the operations accept, a budget's usedTokens, usedCostUsd and
\* usedDurationMs never decrease.
C16_UsedNeverDecreases == [][UsedKept]_vars

\* C16 for callers of the transactional manager that pass no negative delta
C16_UsedNeverDecreasesTx ==
    [][(\A c \in BudgetCallers :
           frame[c].op = "updateBudgetUsage"
           => frame[c].impl = "tx" /\ NonNegative(frame[c].delta))
       => UsedKept]_vars

BudgetRows(sid) == {i \in DOMAIN conversationBudgets : conversationBudgets[i].sessionId = sid}

SetBudgetCalls(sid) ==
    {c \in BudgetCallers : frame[c].op = "setBudget" /\ frame[c].sid = sid}

\* C17: for any sequence or interleaving of setBudget calls on a session, the
\* session has at most one budget row: a setBudget that finds a budget for the
\* session updates that row (the call succeeds), and no step adds a row to a
\* session that has one.
C17_AtMostOneBudgetRow ==
    /\ [](\A sid \in SessionIds :
            /\ Cardinality(BudgetRows(sid)) <= 1
            /\ \A c \in SetBudgetCalls(sid) :
                  (frame[c].pc = "done" /\ frame[c].existing # 0)
                  => frame[c].result = "ok" /\ BudgetRows(sid) = {frame[c].existing})
    /\ [][\A sid \in SessionIds :
            BudgetRows(sid) # {} => BudgetRows(sid)' = BudgetRows(sid)]_vars

\* two setBudget calls raced for the first row of a session (one inserted, the
\* other's insert was rejected), and a later one updated the row
C17_Witness ==
    \E sid \in SessionIds : \E c, d, e \in SetBudgetCalls(sid) :
        /\ frame[c].pc = "done" /\ frame[c].result = "ok" /\ frame[c].existing = 0
        /\ frame[d].pc = "done" /\ frame[d].result = "error"
        /\ frame[e].pc = "done" /\ frame[e].result = "ok" /\ frame[e].existing # 0

\* the step in which a setBudget call writes (or fails to write) and returns
SetBudgetReturns(c) ==
    /\ frame[c].op = "setBudget"
    /\ frame[c].pc \in {"sb_tx", "sb_update", "sb_insert"}
    /\ frame'[c].pc = "done"

\* the max-* columns of the row are what a setBudget with these arguments leaves
CapsApplied(row, max) ==
    /\ max.maxTokens # <<>> => row.maxTokens = max.maxTokens
    /\ max.maxCostUsd # <<>> => row.maxCostUsd = max.maxCostUsd
    /\ max.maxDurationMs # <<>> => row.maxDurationMs = max.maxDurationMs

CapsOf(row) == <<row.maxTokens, row.maxCostUsd, row.maxDurationMs>>

\* C18: a setBudget on a session whose budget already exists leaves usedTokens,
\* usedCostUsd and usedDurationMs as they were, and a setBudget repeated with the
\* max-* arguments the row already reflects leaves the max-* values as they were
\* after the first call.
C18_SetBudgetKeepsUsed ==
    [][\A c \in BudgetCallers :
          LET i == BudgetOf(conversationBudgets, frame[c].sid)
          IN  (SetBudgetReturns(c) /\ i # 0)
              => /\ UsedOf(conversationBudgets'[i]) = UsedOf(conversationBudgets[i])
                 /\ CapsApplied(conversationBudgets[i], frame[c].max)
                    => CapsOf(conversationBudgets'[i]) = CapsOf(conversationBudgets[i])]_vars

\* a budget was set, used, and set again with the same arguments
C18_Witness ==
    \E sid \in SessionIds : \E c, d \in SetBudgetCalls(sid) :
        LET i == BudgetOf(conversationBudgets, sid)
        IN  /\ frame[d].pc = "done" /\ frame[d].result = "ok" /\ frame[d].existing = 0
            /\ frame[c].pc = "done" /\ frame[c].result = "ok" /\ frame[c].existing = i
            /\ i # 0
            /\ frame[c].max = frame[d].max
            /\ conversationBudgets[i].usedTokens > 0
            /\ CapsApplied(conversationBudgets[i], frame[c].max)

-----------------------------------------------------------------------------
(* Claims about getOrCreateSession, checked under SpecSessions *)

SessionCalls ==
    {c \in SessionCallers : frame[c].op = "getOrCreateSession" /\ frame[c].pc = "done"}

\* C20: getOrCreateSession(id) returns the stored session when there is one with
\* that id and creates it otherwise: every call, sequential or concurrent with
\* others for the same id, returns a session with that id, and the id has its
\* one row in sessions (the table is keyed by id).
C20_GetOrCreateSession ==
    \A c \in SessionCalls :
        /\ frame[c].result = frame[c].sid
        /\ frame[c].sid \in DOMAIN sessions

\* C20 without the claim that a racing call returns: a call that returns gives
\* the session asked for, and after any call the id is stored
C20_GetOrCreateSessionReturned ==
    \A c \in SessionCalls :
        /\ frame[c].result # "error" => frame[c].result = frame[c].sid
        /\ frame[c].sid \in DOMAIN sessions

\* a session was created by one call and returned to the next
C20_WitnessSequential ==
    \E c, d \in SessionCalls :
        /\ c # d
        /\ frame[c].sid = "s3" /\ frame[d].sid = "s3"
        /\ frame[c].result = "s3" /\ frame[d].result = "s3"

-----------------------------------------------------------------------------
(* Claims about the session lifecycle, checked under SpecLifecycle *)

\* the rows a session owns
OwnedMessages(sid) ==
    {i \in DOMAIN conversationMessages : conversationMessages[i].sessionId = sid}
OwnedFiles(sid) ==
    {i \in DOMAIN conversationFiles : conversationFiles[i].sessionId = sid}

\* C21: a session's transition to deleted cascades to what it owns: once
\* updateSessionStatus(id, deleted) has completed, no message, file or budget row
\* of that session is stored.
C21_DeletedCascades ==
    \A sid \in DOMAIN sessions :
        sessions[sid].status = "deleted"
        => /\ OwnedMessages(sid) = {}
           /\ OwnedFiles(sid) = {}
           /\ BudgetRows(sid) = {}

-----------------------------------------------------------------------------
(* Claims about getConversationContext, checked under SpecContext *)

ContextReturned == context.sessionId # "none"

\* C22: getConversationContext called with maxTokens = 0 on a session that has
\* messages and files returns empty messages and empty files.
C22_ZeroLimitEmptyView ==
    (/\ ContextReturned
     /\ context.maxTokens = 0
     /\ context.stored # <<>>
     /\ context.storedFiles # <<>>)
    => context.messages = <<>> /\ context.files = <<>>

\* the content tokens of a sequence of messages
RECURSIVE ContentTokens(_)
ContentTokens(messages) ==
    IF messages = <<>> THEN 0
    ELSE CountTokens(Head(messages).content) + ContentTokens(Tail(messages))

\* C23: when getConversationContext prunes, the messages returned are the longest
\* run of newest messages whose content tokens together fit floor(0.7 x maxTokens):
\* a suffix of the stored messages in chronological order, within the budget, and
\* the message just before it does not fit on top (the walk stopped there, and no
\* older message was admitted after it).
C23_NewestRunThatFits ==
    context.pruned =>
        LET n      == Len(context.stored)
            k      == Len(context.messages)
            budget == (context.maxTokens * 7) \div 10
        IN  /\ k <= n
            /\ context.messages = SubSeq(context.stored, n - k + 1, n)
            /\ \A i, j \in 1..k :
                  i < j => context.messages[i].messageIndex < context.messages[j].messageIndex
            /\ ContentTokens(context.messages) <= budget
            /\ k < n => ContentTokens(context.messages)
                           + CountTokens(context.stored[n - k].content) > budget

\* the walk stopped at a message that did not fit although an older one would
\* have fitted
C23_Witness ==
    /\ context.pruned
    /\ context.messages # <<>>
    /\ \E j \in 1..(Len(context.stored) - Len(context.messages) - 1) :
          ContentTokens(context.messages) + CountTokens(context.stored[j].content)
             <= (context.maxTokens * 7) \div 10

\* C24: whenever getConversationContext is given a positive maxTokens, the view
\* returned fits the limit: counted as the pruning decision counts (message
\* sequence tokens plus file tokens), it does not exceed maxTokens.
C24_ViewFitsLimit ==
    (ContextReturned /\ context.maxTokens > 0)
    => CountMessageTokens(context.messages) + CountFileTokens(context.files)
          <= context.maxTokens

\* C24 for the calls that did not have to prune
C24_ViewFitsLimitUnpruned ==
    (ContextReturned /\ context.maxTokens > 0 /\ ~context.pruned)
    => CountMessageTokens(context.messages) + CountFileTokens(context.files)
          <= context.maxTokens

-----------------------------------------------------------------------------
(* Claims about the freshness of the disk cache, checked under SpecPricing *)

\* C30: a disk pricing cache is fresh exactly when now - timestamp < ttl: an
\* unforced getLatestPricing that finds a cache file returns it without a fetch
\* when its age is below ttl, and attempts the remote fetch otherwise, in
\* particular when the age equals ttl exactly.
C30_FreshBelowTtl ==
    \A c \in PriceCallers :
        (pframe[c].pc = "done" /\ pframe[c].loaded /\ pframe[c].loadAge # <<>>)
        => (pframe[c].loadAge[1] < DEFAULT_TTL <=> ~pframe[c].didFetch)

\* C30 away from the boundary: younger than ttl is served, older is fetched
C30_FreshAwayFromTtl ==
    \A c \in PriceCallers :
        (pframe[c].pc = "done" /\ pframe[c].loaded /\ pframe[c].loadAge # <<>>
            /\ pframe[c].loadAge[1] # DEFAULT_TTL)
        => (pframe[c].loadAge[1] < DEFAULT_TTL <=> ~pframe[c].didFetch)

-----------------------------------------------------------------------------
(* Claims about cost resolution, checked under SpecCost *)

\* the calculateCost calls that have returned, and those that had a catalog
CostCalls == {c \in PriceCallers : pframe[c].op = "calculateCost" /\ pframe[c].pc = "done"}
CostCallsWithData == {c \in CostCalls : pframe[c].data # <<>>}

\* the cost of one dimension as the specification gives it: tiered when the
\* count is above the threshold and the entry has a rate for it
TieredFires(tokens, above) == tokens > 200000 /\ above # <<>>
DimensionCostClaimed(tokens, rate, above) ==
    IF TieredFires(tokens, above)
    THEN 200000 * rate + (tokens - 200000) * above[1]
    ELSE tokens * rate

\* C25: for any known model and token counts (i, o), each dimension costs
\* count x baseRate unless count > 200000 and the entry has an above-threshold
\* rate for the dimension, when it costs 200000 x baseRate + (count - 200000) x
\* aboveRate; totalCost = inputCost + outputCost; tieredApplied is true exactly
\* when the tiered branch fired for a dimension.
C25_TieredCost ==
    \A c \in CostCalls :
        pframe[c].pricing # <<>> =>
            LET e    == pframe[c].pricing[2]
                calc == pframe[c].calculation[1]
                i    == pframe[c].inputTokens
                o    == pframe[c].outputTokens
            IN  /\ calc.inputCost = DimensionCostClaimed(i, e.input_cost_per_token,
                                       e.input_cost_per_token_above_200k_tokens)
                /\ calc.outputCost = DimensionCostClaimed(o, e.output_cost_per_token,
                                       e.output_cost_per_token_above_200k_tokens)
                /\ calc.totalCost = calc.inputCost + calc.outputCost
                /\ calc.tieredPricingApplied
                      <=> \/ TieredFires(i, e.input_cost_per_token_above_200k_tokens)
                          \/ TieredFires(o, e.output_cost_per_token_above_200k_tokens)

\* C25 for entries whose above-threshold rates, where present, are not 0
C25_TieredCostNonZeroRates ==
    \A c \in CostCalls :
        LET p == pframe[c].pricing
        IN  (/\ p # <<>>
             /\ p[2].input_cost_per_token_above_200k_tokens # <<0>>
             /\ p[2].output_cost_per_token_above_200k_tokens # <<0>>)
            => LET e    == p[2]
                   calc == pframe[c].calculation[1]
                   i    == pframe[c].inputTokens
                   o    == pframe[c].outputTokens
               IN  /\ calc.inputCost = DimensionCostClaimed(i, e.input_cost_per_token,
                                          e.input_cost_per_token_above_200k_tokens)
                   /\ calc.outputCost = DimensionCostClaimed(o, e.output_cost_per_token,
                                          e.output_cost_per_token_above_200k_tokens)
                   /\ calc.totalCost = calc.inputCost + calc.outputCost
                   /\ calc.tieredPricingApplied
                         <=> \/ TieredFires(i, e.input_cost_per_token_above_200k_tokens)
                             \/ TieredFires(o, e.output_cost_per_token_above_200k_tokens)

\* a tiered calculation and one exactly at the threshold have been made
C25_WitnessNonZeroRates ==
    \E c, d \in CostCalls :
        /\ pframe[c].pricing # <<>> /\ pframe[d].pricing # <<>>
        /\ pframe[c].pricing[2].input_cost_per_token_above_200k_tokens = <<3>>
        /\ pframe[c].inputTokens = 250000
        /\ pframe[c].calculation[1].tieredPricingApplied
        /\ pframe[d].pricing[2].input_cost_per_token_above_200k_tokens = <<3>>
        /\ pframe[d].inputTokens = 200000
        /\ ~pframe[d].calculation[1].tieredPricingApplied

\* C26: calculateCost(model, inputTokens, outputTokens) returns nil when the
\* model is unknown to the pricing catalog, and a cost calculation otherwise.
C26_NilForUnknownModel ==
    \A c \in CostCallsWithData :
        pframe[c].pricing = <<>> <=> pframe[c].calculation = <<>>

\* what calculateCost does return for an unknown model: a calculation of zero cost
C26_ZeroForUnknownModel ==
    \A c \in CostCallsWithData :
        pframe[c].pricing = <<>>
        => /\ pframe[c].calculation # <<>>
           /\ pframe[c].calculation[1].totalCost = 0

\* the calls for which pricing data came neither from the remote nor from disk
CostCallsWithoutData ==
    {c \in CostCalls : pframe[c].fetchFailed /\ pframe[c].fallback = "nocache"}

\* C27: when pricing data can be had neither from the remote nor from the disk
\* cache, cost resolution does not raise: it yields a cost of zero, and the
\* tracking record of the request completes with status success (and cost 0) in
\* its one terminal update.
C27_UnavailablePricingCostsZero ==
    \A c \in CostCallsWithoutData :
        /\ pframe[c].result # "raised"
        /\ pframe[c].calculation # <<>>
        /\ pframe[c].calculation[1].totalCost = 0
        /\ pframe[c].recorded
           => /\ llmRequests[pframe[c].requestId].status = "success"
              /\ llmRequests[pframe[c].requestId].costUSD = 0
              /\ llmRequests[pframe[c].requestId].updates = 1

\* a request whose cost could not be looked up has been completed
C27_Witness ==
    \E c \in CostCallsWithoutData :
        /\ pframe[c].recorded
        /\ pframe[c].inputTokens > 0
        /\ llmRequests[pframe[c].requestId].status = "success"

\* catalog keys that match a normalized name exactly, and by inclusion of one
\* lower-cased name in the other
ExactKeys(catalog, name) == {i \in DOMAIN catalog : catalog[i][1] = name}
IncludingKeys(catalog, name) ==
    {i \in DOMAIN catalog :
        \/ Includes(ToLowerCase(catalog[i][1]), ToLowerCase(name))
        \/ Includes(ToLowerCase(name), ToLowerCase(catalog[i][1]))}

\* C28: the lookup resolves a model by the exact normalized name first and,
\* failing that, by case-insensitive substring inclusion between the normalized
\* name and the catalog keys; the model is unknown only if neither matches.
C28_LookupExactThenSubstring ==
    \A c \in CostCallsWithData :
        LET catalog == CatalogOf(pframe[c].data[1])
            name    == NormalizeModelName(pframe[c].model)
            found   == pframe[c].pricing
        IN  /\ ExactKeys(catalog, name) # {}
               => found # <<>> /\ found[1] = name
            /\ (ExactKeys(catalog, name) = {} /\ IncludingKeys(catalog, name) # {})
               => /\ found # <<>>
                  /\ \E i \in IncludingKeys(catalog, name) : found = catalog[i]
            /\ found = <<>>
               <=> ExactKeys(catalog, name) = {} /\ IncludingKeys(catalog, name) = {}

\* the lookup as it is: exact first, then equality of the lower-cased names
C28_LookupExactThenSameName ==
    \A c \in CostCallsWithData :
        LET catalog == CatalogOf(pframe[c].data[1])
            name    == NormalizeModelName(pframe[c].model)
            found   == pframe[c].pricing
            same    == {i \in DOMAIN catalog :
                           ToLowerCase(catalog[i][1]) = ToLowerCase(name)}
        IN  /\ ExactKeys(catalog, name) # {} => found # <<>> /\ found[1] = name
            /\ (ExactKeys(catalog, name) = {} /\ same # {})
               => found # <<>> /\ \E i \in same : found = catalog[i]
            /\ found = <<>> <=> ExactKeys(catalog, name) = {} /\ same = {}

-----------------------------------------------------------------------------
(* Claims about the ingest of the remote catalog, checked under SpecIngest *)

\* an entry has a token cost / an explicit image cost
HasBothTokenCosts(entry) ==
    /\ entry.input_cost_per_token # Undefined /\ entry.input_cost_per_token[1] = "number"
    /\ entry.output_cost_per_token # Undefined /\ entry.output_cost_per_token[1] = "number"
HasImageCost(entry) ==
    \E field \in {entry.input_cost_per_image, entry.output_cost_per_image, entry.cost_per_image} :
        field # Undefined /\ field[1] = "number"

\* C29: after ingest of the remote catalog, an entry is retained if and only
\* if its name contains none of the skip substrings and it either has both
\* input_cost_per_token and output_cost_per_token or has explicit image-cost
\* fields.
C29_RetainedIffPriced ==
    fetched.ok =>
        \A name \in DOMAIN fetched.rawData :
            name \in DOMAIN fetched.filteredData
            <=> /\ ~SkippedByName(name)
                /\ \/ HasBothTokenCosts(fetched.rawData[name])
                   \/ HasImageCost(fetched.rawData[name])

\* what the ingest does retain: the entries with no skip substring in the name
\* and both token costs; an entry with image costs alone is dropped
C29_RetainedIffTokenCosts ==
    fetched.ok =>
        /\ \A name \in DOMAIN fetched.rawData :
              name \in DOMAIN fetched.filteredData
              <=> /\ ~SkippedByName(name)
                  /\ HasBothTokenCosts(fetched.rawData[name])
        /\ \A name \in DOMAIN fetched.filteredData :
              fetched.filteredData[name] = fetched.rawData[name]

-----------------------------------------------------------------------------
(* Claims about best-effort budget tracking, checked under SpecBestEffort *)

\* the updateBudgetUsage calls that have returned or thrown
UsageCallsDone ==
    {c \in BudgetCallers : frame[c].op = "updateBudgetUsage" /\ frame[c].pc = "done"}

\* a step of an updateBudgetUsage call on a session without a budget row
\* leaves the budgets table as it is
NoBudgetNoChange ==
    \A c \in BudgetCallers :
        (/\ frame[c].op = "updateBudgetUsage"
         /\ frame[c].pc # frame'[c].pc
         /\ BudgetOf(conversationBudgets, frame[c].sid) = 0)
        => conversationBudgets' = conversationBudgets

\* C31: updateBudgetUsage never propagates an error to its caller: a store
\* failure during the update is logged and swallowed, and on a session without
\* a budget the call is a silent no-op that creates or changes no row.
C31_UsageNeverThrows ==
    /\ [](\A c \in UsageCallsDone : frame[c].result = "ok")
    /\ [][NoBudgetNoChange]_vars

\* C31 for the manager that wraps the update in a transaction and a try block
C31_UsageNeverThrowsTx ==
    /\ [](\A c \in UsageCallsDone : frame[c].impl = "tx" => frame[c].result = "ok")
    /\ [][NoBudgetNoChange]_vars

\* a store failure was swallowed while a budget existed, and a call on a
\* session without a budget returned
C31_WitnessTx ==
    \E c, d \in UsageCallsDone :
        /\ frame[c].impl = "tx" /\ frame[c].logged /\ frame[c].result = "ok"
        /\ BudgetOf(conversationBudgets, frame[c].sid) # 0
        /\ frame[d].impl = "tx" /\ ~frame[d].logged /\ frame[d].existing = 0
        /\ BudgetOf(conversationBudgets, frame[d].sid) = 0

-----------------------------------------------------------------------------
(* Claims about budget enforcement, checked under SpecAdvisory *)

\* the addMessage calls that return in this step
AddMessageReturning ==
    {c \in Callers : /\ frame[c].op = "addMessage"
                     /\ frame[c].pc # "done" /\ frame'[c].pc = "done"}

\* C32: budget enforcement is advisory: addMessage is never refused because of
\* budget state; it succeeds and stores the message even when checkBudgetLimits
\* for the session reports withinLimits = false, and it does not modify the
\* used-counters of the budget.
C32_AddMessageIgnoresBudget ==
    [][\A c \in AddMessageReturning :
          /\ frame'[c].result = "ok"
          /\ \E i \in DOMAIN conversationMessages' :
                /\ i > Len(conversationMessages)
                /\ conversationMessages'[i].sessionId = frame[c].sid
                /\ conversationMessages'[i].content = frame[c].content
          /\ conversationBudgets' = conversationBudgets]_vars

\* a message was stored in a session whose budget is spent
C32_Witness ==
    \E c \in Callers :
        /\ frame[c].op = "addMessage" /\ frame[c].pc = "done" /\ frame[c].result = "ok"
        /\ ~CheckBudgetLimits(conversationBudgets, frame[c].sid).withinLimits
        /\ \E d \in BudgetCallers :
              /\ d < c /\ frame[d].op = "updateBudgetUsage" /\ frame[d].pc = "done"
        /\ \E i \in DOMAIN conversationMessages :
              conversationMessages[i].sessionId = frame[c].sid

-----------------------------------------------------------------------------
(* Claims about listSessions, checked under SpecList *)

\* the message rows and the file rows a session had when the list was made
ListedMessages(sid) == {i \in DOMAIN listed.stored : listed.stored[i].sessionId = sid}
ListedFiles(sid) == {i \in DOMAIN listed.storedFiles : listed.storedFiles[i].sessionId = sid}

\* C33: for every session summary returned by listSessions, messageCount
\* equals the number of message rows of that session and fileCount equals the
\* number of file rows of that session, for any combination of message and
\* file counts.
C33_SummaryCounts ==
    \A k \in DOMAIN listed.sessions :
        LET summary == listed.sessions[k]
        IN  /\ summary.messageCount = Cardinality(ListedMessages(summary.id))
            /\ summary.fileCount = Cardinality(ListedFiles(summary.id))

\* the counts are right for the sessions that have no message, no file, or one
\* of each
C33_SummaryCountsOneSided ==
    \A k \in DOMAIN listed.sessions :
        LET summary == listed.sessions[k]
            m == Cardinality(ListedMessages(summary.id))
            n == Cardinality(ListedFiles(summary.id))
        IN  (m = 0 \/ n = 0 \/ (m = 1 /\ n = 1))
            => summary.messageCount = m /\ summary.fileCount = n

-----------------------------------------------------------------------------
(* Claims about the OpenAI adapter, checked under SpecOpenAI *)

StartsWith(str, prefix) ==
    Len(str) >= Len(prefix) /\ SubSeq(str, 1, Len(prefix)) = prefix

\* the requests the adapter handed to the SDK
ChatRequests == {i \in DOMAIN sent : sent[i].kind \in Methods}

\* C34: for every OpenAI generate or streamGenerate request whose model
\* identifier begins with a reasoning-model prefix (o1, o3, gpt-5), the
\* temperature sent upstream is exactly 1.0 regardless of the temperature given
\* in the request.
C34_ReasoningTemperature ==
    \A i \in ChatRequests :
        (\E prefix \in {O1, O3, Gpt5} : StartsWith(sent[i].model, prefix))
        => sent[i].temperature = 10

\* the temperature is 1.0 for the two models named gpt-5 and o3 exactly
C34_ReasoningTemperatureExactNames ==
    \A i \in ChatRequests :
        sent[i].model \in {O3, Gpt5} => sent[i].temperature = 10

-----------------------------------------------------------------------------
(* Claims about getEmbeddings, checked under SpecEmbed *)

\* the embedding requests handed to the SDK
EmbedRequests == {i \in DOMAIN sent : sent[i].kind \in {"embed", "embedMany"}}

\* C35: embedMany on N texts issues exactly N upstream embedding requests when
\* the provider is Azure, one text per request and one after the other, and
\* exactly 1 request for any other provider.
C35_EmbeddingRequests ==
    LET n == Len(ecall.texts)
    IN  /\ ecall.pc = "returned" =>
              IF ecall.provider = "azure"
              THEN /\ Cardinality(EmbedRequests) = n
                   /\ \A i \in EmbedRequests :
                         sent[i].kind = "embed" /\ sent[i].values = <<ecall.texts[i]>>
                   /\ ecall.embeddings = [k \in 1..n |-> EmbeddingOf(ecall.texts[k])]
              ELSE /\ Cardinality(EmbedRequests) = 1
                   /\ \A i \in EmbedRequests :
                         sent[i].kind = "embedMany" /\ sent[i].values = ecall.texts
        /\ ecall.provider = "azure" =>
              /\ Cardinality(EmbedRequests) <= n
              /\ Cardinality(EmbedRequests) <= Len(ecall.embeddings) + 1
        /\ ecall.provider # "azure" => Cardinality(EmbedRequests) <= 1

\* two texts were embedded through Azure
C35_Witness ==
    /\ ecall.pc = "returned" /\ ecall.provider = "azure"
    /\ Len(ecall.texts) = 2 /\ Len(sent) = 2 /\ Len(ecall.embeddings) = 2

-----------------------------------------------------------------------------
(* Claims about a failing cache write, checked under SpecPricing *)

\* the getLatestPricing calls that return or throw in this step after their
\* remote fetch succeeded
FetchedReturning ==
    {c \in PriceCallers : /\ pframe[c].pc # "done" /\ pframe'[c].pc = "done"
                          /\ pframe[c].fetched # <<>>}

\* C36: if the remote pricing fetch succeeds, getLatestPricing returns the
\* freshly fetched data even when writing the disk cache afterwards fails: a
\* cache-write failure never causes older cached data to be returned in place
\* of the fetched data, nor a 'fetch failed' error to be raised.
C36_FetchedDataReturned ==
    [][\A c \in FetchedReturning :
          /\ pframe'[c].result = "remote"
          /\ pframe'[c].data = pframe[c].fetched]_vars

\* the fetched data is returned when the cache write succeeds
C36_FetchedDataReturnedAfterWrite ==
    [][\A c \in FetchedReturning :
          pframe'[c].didWrite =>
              /\ pframe'[c].result = "remote"
              /\ pframe'[c].data = pframe[c].fetched]_vars

-----------------------------------------------------------------------------
(* Claims about overlapping pricing loads, checked under SpecOverlap *)

\* the loads that settle in this step although a refreshCache or clearCache
\* issued after them has already reset the in-memory copy
OvertakenLoads ==
    {c \in PriceCallers :
        /\ pframe[c].pc \notin {"idle", "done"} /\ pframe'[c].pc = "done"
        /\ pframe[c].op \in {"getModelPricing", "refreshCache"}
        /\ \E d \in PriceCallers :
              /\ d > c /\ pframe[d].pc # "idle"
              /\ pframe[d].op \in {"refreshCache", "clearCache"}}

\* C37: the in-memory pricing copy never regresses under overlapping loads: a
\* pricing load that started before a later refreshCache or clearCache took
\* effect never writes its result, or its earlier lastFetchTime, into the
\* in-memory cache after that later operation.
C37_NoRegression ==
    [][\A c \in OvertakenLoads :
          /\ pricingDataCache' = pricingDataCache
          /\ lastFetchTime' = lastFetchTime]_vars

\* every load that returns data writes it, with the time the load was entered,
\* into the in-memory copy, whatever happened meanwhile
C37_LoadsWriteOwnResult ==
    [][\A c \in PriceCallers :
          (/\ pframe[c].pc \notin {"idle", "done"} /\ pframe'[c].pc = "done"
           /\ pframe'[c].result \in {"disk", "remote", "stale"})
          => /\ pricingDataCache' = pframe'[c].data
             /\ lastFetchTime' = pframe[c].now]_vars

\* C38: a single addFiles call whose list holds the same content more than once,
\* that content not yet being stored for the session, completes successfully
\* and leaves exactly one file row for that content.
RepeatedBodies(files) ==
    {files[i] : i \in {i \in DOMAIN files : \E j \in DOMAIN files : j # i /\ files[j] = files[i]}}

UnstoredRepeats(f) ==
    {b \in RepeatedBodies(f.files) :
        ExistingFiles(conversationFiles, f.sid, {Sha256(b)}) = {}}

AddFilesSettling ==
    {c \in FileCallers :
        /\ frame[c].op = "addFiles" /\ frame[c].pc = "af_tx" /\ frame'[c].pc = "done"}

C38_RepeatedContentStoredOnce ==
    [][\A c \in AddFilesSettling : \A b \in UnstoredRepeats(frame[c]) :
          /\ frame'[c].result = "ok"
          /\ Cardinality(ExistingFiles(conversationFiles', frame[c].sid, {Sha256(b)})) = 1]_vars

\* C38, what the code does: such a call fails and the transaction leaves
\* conversation_files as it was, so no row for that content exists afterwards
C38_RepeatedContentRejected ==
    [][\A c \in AddFilesSettling : \A b \in UnstoredRepeats(frame[c]) :
          /\ frame'[c].result = "error"
          /\ conversationFiles' = conversationFiles
          /\ ExistingFiles(conversationFiles', frame[c].sid, {Sha256(b)}) = {}]_vars

\* C38, repeated content that is already stored: the call succeeds and the
\* one stored row stays the only one
C38_StoredRepeatsKeepOneRow ==
    [][\A c \in AddFilesSettling :
          \A b \in RepeatedBodies(frame[c].files) \ UnstoredRepeats(frame[c]) :
             (UnstoredRepeats(frame[c]) = {}) =>
                /\ frame'[c].result = "ok"
                /\ Cardinality(ExistingFiles(conversationFiles', frame[c].sid, {Sha256(b)})) = 1]_vars

\* C38: a call with repeated, unstored content has failed
C38_RejectedReached ==
    \E c \in FileCallers :
        /\ frame[c].op = "addFiles" /\ frame[c].pc = "done" /\ frame[c].result = "error"
        /\ RepeatedBodies(frame[c].files) # {}
        /\ conversationFiles = <<>>

\* C39: the chunks a streaming adapter yields and the responseText it records
\* depend only on the bytes of the upstream body, not on how the bytes are
\* divided across the reads: every division gives what the division into one
\* single read gives.
RECURSIVE Drain(_, _, _)
\* the for loop over the lines of one read, run through all its yields
Drain(lines, finishReason, chunks) ==
    LET r == RunLines(lines, finishReason)
    IN  IF r.chunk = <<>> THEN [chunks |-> chunks, finishReason |-> r.finishReason]
        ELSE Drain(r.rest, r.finishReason, chunks \o r.chunk)

\* what the adapter yields and records when one read returns the whole body
WholeBodyRead == Drain(Front(Split(upstream.body)), "stop", <<>>)

C39_ReadDivisionIrrelevant ==
    (FetchStream /\ call.pc = "returned") =>
        /\ yielded = WholeBodyRead.chunks
        /\ Rec.responseText = Concat(WholeBodyRead.chunks)
        /\ Rec.finishReason = WholeBodyRead.finishReason

\* C39, what the code does: the division is irrelevant for the bodies in which
\* no complete line follows a [DONE] line
NothingAfterDone ==
    \A i \in DOMAIN BodyLines :
        BodyLines[i] = <<"data: ", "[DONE]">> => i = Len(BodyLines)

C39_ReadDivisionIrrelevantUpToDone ==
    (FetchStream /\ call.pc = "returned" /\ NothingAfterDone) =>
        /\ yielded = WholeBodyRead.chunks
        /\ Rec.responseText = Concat(WholeBodyRead.chunks)
        /\ Rec.finishReason = WholeBodyRead.finishReason

\* C39: the body [DONE], "He" was read in two reads that part after the [DONE]
\* line, and "He" was yielded; one read of the whole body yields nothing
C39_DividedAfterDone ==
    /\ FetchStream /\ call.pc = "returned"
    /\ upstream.body = Join(<< <<"data: ", "[DONE]">>,
                               <<"data: ", "{content:He", "}">> >>, TRUE)
    /\ yielded = <<"He">> /\ WholeBodyRead.chunks = <<>>

\* C40: if the requested model name is itself a key of the pricing catalog,
\* getModelPricing returns that key's own entry: alias normalization never
\* redirects a name that matches a catalog key exactly to another entry (or to
\* none).
IsCatalogKey(catalog, model) == \E i \in DOMAIN catalog : catalog[i][1] = model

C40_CatalogKeyOwnEntry ==
    \A c \in CostCallsWithData :
        LET catalog == CatalogOf(pframe[c].data[1])
        IN  IsCatalogKey(catalog, pframe[c].model)
               => /\ pframe[c].pricing # <<>>
                  /\ pframe[c].pricing[1] = pframe[c].model

\* C40, what the code does: a catalog key gets its own entry when normalization
\* leaves it alone up to the case of its letters
C40_UnredirectedKeyOwnEntry ==
    \A c \in CostCallsWithData :
        LET catalog == CatalogOf(pframe[c].data[1])
            model   == pframe[c].model
        IN  (/\ IsCatalogKey(catalog, model)
             /\ ToLowerCase(NormalizeModelName(model)) = ToLowerCase(model))
               => /\ pframe[c].pricing # <<>>
                  /\ pframe[c].pricing[1] = model

\* C40: the catalog key "xai/grok-3" was asked for, was normalized to "grok-3"
\* and resolved to no entry
C40_KeyRedirected ==
    \E c \in CostCallsWithData :
        /\ pframe[c].model = XaiGrok3
        /\ IsCatalogKey(CatalogOf(pframe[c].data[1]), XaiGrok3)
        /\ NormalizeModelName(XaiGrok3) = Grok3
        /\ pframe[c].pricing = <<>>

\* C40: the catalog key "O3" was asked for and resolved to its own entry
C40_KeyFound ==
    \E c \in CostCallsWithData :
        /\ pframe[c].model = UpperO3
        /\ pframe[c].pricing # <<>> /\ pframe[c].pricing[1] = UpperO3

====
